---------------------------- MODULE Spec2Model ----------------------------
(***************************************************************************)
(* Run planner of pytorch-boilerplate (src/utils/planner.py) and the       *)
(* settings store it mutates (src/utils/settings.py).                      *)
(*                                                                         *)
(* A planner object is a record holding the fields the Python classes      *)
(* keep; a composite holds its children in `planners`.  The Python         *)
(* iterators a composite keeps for its children are the children           *)
(* themselves (every __iter__ returns self), so an iterator slot is        *)
(* modelled by whether it is None (<<>>) or which child it aliases.        *)
(* An optional value is a sequence: <<>> is None, <<v>> is v.              *)
(* A name (a Python str) is a sequence of tokens; setting names and        *)
(* basenames are single tokens, numbers are decimal digit tokens.          *)
(***************************************************************************)
EXTENDS Integers, Sequences, FiniteSets, TLC

(* ------------------------------ bounds --------------------------------- *)

\* Largest number of values a leaf planner iterates.
MaxLen == 2

\* Largest number of children of a composite over leaves.
MaxChildren == 3

\* Largest number of times the client begins (iter()) the root planner.
MaxPasses == 2

\* Largest number of advances the client makes after end-of-sequence
\* without beginning again.
MaxAfterStop == 1

(* ------------------------------ settings ------------------------------- *)

\* A float is written as in the source, as a decimal literal: [m, e]
\* stands for m / 10^e (0.01 is [m |-> 1, e |-> 2]) with m not a multiple
\* of 10 unless e = 0.  The settings declared float hold such values, the
\* settings declared int hold integers.
FloatSettings == {"learning_rate"}

\* The settings the planners of this model target, with their defaults.
DefaultSettings ==
    [nb_classes |-> 4, train_point_per_class |-> 2000,
     test_point_per_class |-> 500, batch_size |-> 128, nb_epoch |-> 20,
     checkpoints_per_epoch |-> 1, learning_rate |-> [m |-> 1, e |-> 3],
     run_name |-> << <<>> >>, visual_progress_bar |-> TRUE, show_images |-> TRUE]

SettingNames ==
    <<"nb_epoch", "batch_size", "nb_classes", "train_point_per_class",
      "test_point_per_class", "checkpoints_per_epoch">>

\* asserts   whether the interpreter executes assert statements (it does
\*           not when started with -O)
VARIABLE asserts

\* The conditions Settings.validate asserts over the integer settings of
\* this model.
Asserted(s) ==
    /\ s.nb_classes > 0
    /\ s.train_point_per_class > 0
    /\ s.test_point_per_class > 0
    /\ s.batch_size > 0
    /\ s.nb_epoch > 0
    /\ s.checkpoints_per_epoch >= 0

\* Settings.validate: the exception it raises, "" when it returns.  Its
\* body is a list of assert statements.  The first one calls
\* self.run_name.strip(), an AttributeError when run_name is None; the
\* names of this model (no white space, none of the characters the second
\* assertion excludes) pass both assertions on the run name.
validate(s) ==
    IF ~ asserts THEN ""
    ELSE IF s.run_name = <<>> THEN "AttributeError"
    ELSE IF ~ Asserted(s) THEN "AssertionError"
    ELSE ""

\* An environment threads the store and the log of what was done to it
\* through one operation: `writes` lists every assignment to
\* settings.__dict__ as [name, value, by] (by: path of the leaf from the
\* root, a sequence of child indices); `reads` lists every
\* getattr(settings, name) a planner makes as [name, by, at] (at: the
\* number of writes of the operation made before the read); `late` lists
\* the paths of the objects whose __next__ was called after it had raised
\* StopIteration and before the object was begun again.
NewEnv(s) == [settings |-> s, writes |-> <<>>, reads |-> <<>>, late |-> <<>>]

\* getattr(settings, name) by the leaf at path `by`.
GetAttr(env, name, by) ==
    [env EXCEPT !.reads = Append(@, [name |-> name, by |-> by, at |-> Len(env.writes)])]

\* Settings.__setattr__: read the old value for the debug log (an unknown
\* name raises AttributeError before anything is written), store the
\* value, then validate the whole object (an exception of validate leaves
\* the value stored).
\* Mutant: a value that validate rejects is taken out of the store again
\* before the exception leaves __setattr__.
SetAttr_rollback(env, name, value, by) ==
    IF name \notin DOMAIN env.settings
    THEN [env |-> env, exc |-> "AttributeError"]
    ELSE LET s2 == [env.settings EXCEPT ![name] = value]
             e2 == [env EXCEPT !.settings = s2,
                               !.writes = Append(@, [name |-> name, value |-> value, by |-> by])]
         IN  IF validate(s2) # "" THEN [env |-> env, exc |-> validate(s2)]
             ELSE [env |-> e2, exc |-> ""]

SetAttr(env, name, value, by) ==
    IF name \notin DOMAIN env.settings
    THEN [env |-> env, exc |-> "AttributeError"]
    ELSE LET s2 == [env.settings EXCEPT ![name] = value]
             e2 == [env EXCEPT !.settings = s2,
                               !.writes = Append(@, [name |-> name, value |-> value, by |-> by])]
         IN  [env |-> e2, exc |-> validate(s2)]

(* ------------------------------- names --------------------------------- *)

Digit(d) ==
    CASE d = 0 -> "0" [] d = 1 -> "1" [] d = 2 -> "2" [] d = 3 -> "3"
      [] d = 4 -> "4" [] d = 5 -> "5" [] d = 6 -> "6" [] d = 7 -> "7"
      [] d = 8 -> "8" [] d = 9 -> "9"

\* str(n) of a natural number: its decimal digits.
RECURSIVE Str(_)
Str(n) == IF n < 10 THEN <<Digit(n)>> ELSE Str(n \div 10) \o <<Digit(n % 10)>>

\* f'{n:03d}': decimal digits, zero-padded on the left to width 3.
Pad3(n) ==
    LET d == Str(n)
    IN  IF Len(d) >= 3 THEN d
        ELSE [i \in 1..(3 - Len(d)) |-> "0"] \o d

RECURSIVE Pow10(_)
Pow10(e) == IF e = 0 THEN 1 ELSE 10 * Pow10(e - 1)

\* str(x) of a float in 0.0001 <= x < 1e16 (Python prints these in
\* positional notation): the integer part, ".", and the fractional digits,
\* "0" when there are none.
FloatStr(v) ==
    LET frac == Str(v.m % Pow10(v.e))
    IN  Str(v.m \div Pow10(v.e)) \o <<".">> \o
        ( IF v.e = 0 THEN <<"0">>
          ELSE [i \in 1..(v.e - Len(frac)) |-> "0"] \o frac )

\* f'{value}' of a value of the given setting.
StrValue(name, value) ==
    IF name \in FloatSettings THEN FloatStr(value) ELSE Str(value)

\* '_'.join(names)
RECURSIVE Join(_)
Join(names) ==
    IF names = <<>> THEN <<>>
    ELSE IF Len(names) = 1 THEN names[1]
    ELSE names[1] \o <<"_">> \o Join(Tail(names))

\* BasePlanner.basename: f'{runs_basename}-{num_count:03d}'
basename(p) == <<p.runs_basename, "-">> \o Pad3(p.num_count)

(* ------------------------- planner expressions ------------------------- *)

Composites == {"SequencePlanner", "ParallelPlanner", "CombinatorPlanner"}

\* A constructor call as written by the caller: Planner(name, values) or
\* a composite over a list of constructor calls.
LeafExpr(name, values) ==
    [kind |-> "Planner", setting_name |-> name, setting_values |-> values,
     planners |-> <<>>, runs_basename |-> ""]

CompositeExpr(kind, planners) ==
    [kind |-> kind, setting_name |-> "", setting_values |-> <<>>,
     planners |-> planners, runs_basename |-> ""]

\* The node of an expression (or of an object) at a path.
RECURSIVE At(_, _)
At(e, path) == IF path = <<>> THEN e ELSE At(e.planners[Head(path)], Tail(path))


\* The j-th leaf of an expression (in depth-first order) targets the j-th
\* setting name, so the leaves of one expression target distinct settings;
\* its n values are j + 1, ..., j + n (all accepted by validate).
Values(j, n) == [i \in 1..n |-> j + i]

Leaf(j, n) == LeafExpr(SettingNames[j], Values(j, n))

Lengths(n) == [1..n -> 0..MaxLen]

\* A single leaf, and every composite over 0..MaxChildren leaves.
FlatPlans ==
    { Leaf(1, n) : n \in 0..MaxLen }
    \cup
    UNION { { CompositeExpr(kind, [j \in 1..n |-> Leaf(j, ls[j])]) :
                  kind \in Composites, ls \in Lengths(n) } :
            n \in 0..MaxChildren }

\* A composite of two leaves used as the only, the first or the second
\* child of another composite.
NestedPlans ==
    UNION { { CompositeExpr(outer, <<CompositeExpr(inner, <<Leaf(1, ls[1]), Leaf(2, ls[2])>>)>>),
              CompositeExpr(outer, <<CompositeExpr(inner, <<Leaf(1, ls[1]), Leaf(2, ls[2])>>),
                                     Leaf(3, ls[3])>>),
              CompositeExpr(outer, <<Leaf(1, ls[1]),
                                     CompositeExpr(inner, <<Leaf(2, ls[2]), Leaf(3, ls[3])>>)>>) } :
            outer \in Composites, inner \in Composites, ls \in Lengths(3) }

\* A composite whose first child is a composite of two leaves and whose
\* second child is a leaf, used as the only child of a SequencePlanner.
DeepPlans ==
    { CompositeExpr("SequencePlanner",
          <<CompositeExpr(outer, <<CompositeExpr(inner, <<Leaf(1, ls[1]), Leaf(2, ls[2])>>),
                                   Leaf(3, ls[3])>>)>>) :
      outer \in Composites, inner \in Composites, ls \in Lengths(3) }

\* An expression with the runs_basename argument given.
Named(e, b) == [e EXCEPT !.runs_basename = b]

\* Expressions with basenames: a named leaf; a named composite over two
\* leaves; a named composite whose first child is a composite; and the
\* shape of the example of runs_planner.py, a CombinatorPlanner over a
\* composite of two named leaves and an unnamed leaf.
NamedPlans ==
    { Named(Leaf(1, n), "run") : n \in 0..MaxLen }
    \cup
    { Named(CompositeExpr(kind, <<Leaf(1, ls[1]), Leaf(2, ls[2])>>), "run") :
          kind \in Composites, ls \in Lengths(2) }
    \cup
    { Named(CompositeExpr(outer, <<CompositeExpr(inner, <<Leaf(1, ls[1]), Leaf(2, ls[2])>>),
                                   Leaf(3, ls[3])>>), "run") :
          outer \in Composites, inner \in Composites, ls \in Lengths(3) }
    \cup
    { CompositeExpr("CombinatorPlanner",
          <<CompositeExpr(inner, <<Named(Leaf(1, ls[1]), "nb_train"),
                                   Named(Leaf(2, ls[2]), "nb_test")>>),
            Leaf(3, ls[3])>>) :
          inner \in Composites, ls \in Lengths(3) }

\* A composite over leaves of a common length in which one value of one
\* leaf is 0, which validate rejects; and such a composite of two leaves
\* used as the first child of a SequencePlanner or a CombinatorPlanner.
RejectPlans ==
    UNION { UNION { { CompositeExpr(kind,
                          [j \in 1..n |->
                              IF j = b
                              THEN LeafExpr(SettingNames[j], [Values(j, m) EXCEPT ![i] = 0])
                              ELSE Leaf(j, m)]) :
                      kind \in Composites,
                      b \in 1..n, i \in 1..m } :
                    n \in 2..MaxChildren } :
            m \in 1..MaxLen }
    \cup
    UNION { { CompositeExpr(outer,
                  <<CompositeExpr(inner,
                        [j \in 1..2 |->
                            IF j = b
                            THEN LeafExpr(SettingNames[j], [Values(j, m) EXCEPT ![i] = 0])
                            ELSE Leaf(j, m)]),
                    Leaf(3, m)>>) :
              outer \in {"SequencePlanner", "CombinatorPlanner"},
              inner \in Composites, b \in 1..2, i \in 1..m } :
            m \in 1..MaxLen }

\* A CombinatorPlanner over a float setting with the values 0.1, 0.01 and
\* an integer setting with the values 1, 5, 10.
ExamplePlans ==
    { CompositeExpr("CombinatorPlanner",
          <<LeafExpr("learning_rate", <<[m |-> 1, e |-> 1], [m |-> 1, e |-> 2]>>),
            LeafExpr("nb_epoch", <<1, 5, 10>>)>>) }

\* The expressions the caller may write.
Plans ==
    FlatPlans \cup NestedPlans \cup DeepPlans \cup NamedPlans \cup RejectPlans
    \cup ExamplePlans

(* --------------------------- planner objects --------------------------- *)

\* BasePlanner.__init__ and the fields every subclass adds; a class that
\* does not have a field keeps its empty value.  `stopped` is not a field
\* of the class: it records that __next__ of the object has raised
\* StopIteration since the object was last begun.
BasePlanner(kind, runs_basename) ==
    [kind |-> kind, runs_basename |-> runs_basename, num_count |-> 0,
     stopped |-> FALSE,
     setting_name |-> "", setting_values |-> <<>>,
     setting_original_value |-> <<>>, values_iterator |-> <<>>,
     planners |-> <<>>, current_planner_id |-> 0,
     planners_iterator |-> <<>>, current_planner_iterator |-> <<>>,
     planners_iterators |-> <<>>, runs_name |-> <<>>, first_iter |-> FALSE]

\* __len__ of each class.
RECURSIVE len(_)
len(p) ==
    LET RECURSIVE Sum(_), Prod(_)
        Sum(k) == IF k = 0 THEN 0 ELSE len(p.planners[k]) + Sum(k - 1)
        Prod(k) == IF k = 0 THEN 1 ELSE len(p.planners[k]) * Prod(k - 1)
    IN  CASE p.kind = "Planner" -> Len(p.setting_values)
          [] p.kind = "SequencePlanner" -> Sum(Len(p.planners))
          [] p.kind = "ParallelPlanner" -> len(p.planners[1])
          [] p.kind = "CombinatorPlanner" -> Prod(Len(p.planners))

\* Planner.__init__
Planner(setting_name, setting_values, runs_basename) ==
    [BasePlanner("Planner", runs_basename) EXCEPT
        !.setting_name = setting_name, !.setting_values = setting_values]

\* Mutant: the empty list is not rejected.
SequencePlanner_nocheck(planners, runs_basename) ==
    <<[BasePlanner("SequencePlanner", runs_basename) EXCEPT
         !.planners = planners]>>

\* SequencePlanner.__init__: <<>> when it raises ValueError.
SequencePlanner(planners, runs_basename) ==
    IF Len(planners) = 0 THEN <<>>
    ELSE <<[BasePlanner("SequencePlanner", runs_basename) EXCEPT
              !.planners = planners]>>

\* Mutant: the children's lengths are not compared.
ParallelPlanner_nocheck(planners, runs_basename) ==
    IF Len(planners) = 0 THEN <<>>
    ELSE <<[BasePlanner("ParallelPlanner", runs_basename) EXCEPT
              !.planners = planners,
              !.planners_iterators = [i \in 1..Len(planners) |-> FALSE]]>>

\* ParallelPlanner.__init__: <<>> when it raises ValueError.
ParallelPlanner(planners, runs_basename) ==
    IF Len(planners) = 0 THEN <<>>
    ELSE IF ~ \A x \in 1..Len(planners) : len(planners[x]) = len(planners[1])
    THEN <<>>
    ELSE <<[BasePlanner("ParallelPlanner", runs_basename) EXCEPT
              !.planners = planners,
              !.planners_iterators = [i \in 1..Len(planners) |-> FALSE]]>>

\* CombinatorPlanner.__init__: <<>> when it raises ValueError.
CombinatorPlanner(planners, runs_basename) ==
    IF Len(planners) = 0 THEN <<>>
    ELSE <<[BasePlanner("CombinatorPlanner", runs_basename) EXCEPT
              !.planners = planners,
              !.planners_iterators = [i \in 1..Len(planners) |-> FALSE],
              !.runs_name = [i \in 1..Len(planners) |-> <<>>],
              !.first_iter = TRUE]>>

\* Evaluation of a constructor expression: the arguments are constructed
\* first, left to right; an exception in any of them leaves no object.
RECURSIVE New(_)
New(e) ==
    IF e.kind = "Planner"
    THEN <<Planner(e.setting_name, e.setting_values, e.runs_basename)>>
    ELSE LET args == [k \in 1..Len(e.planners) |-> New(e.planners[k])]
         IN  IF \E k \in 1..Len(args) : args[k] = <<>> THEN <<>>
             ELSE LET planners == [k \in 1..Len(args) |-> args[k][1]]
                  IN  CASE e.kind = "SequencePlanner" ->
                               SequencePlanner(planners, e.runs_basename)
                        [] e.kind = "ParallelPlanner" ->
                               ParallelPlanner(planners, e.runs_basename)
                        [] e.kind = "CombinatorPlanner" ->
                               CombinatorPlanner(planners, e.runs_basename)

(* ----------------------------- operations ------------------------------ *)

\* What a call leaves behind: the object and the environment as mutated,
\* the exception raised ("" when the call returned) and the value
\* returned (<<>> for None).
Ret(p, env, exc, name) == [p |-> p, env |-> env, exc |-> exc, name |-> name]

RECURSIVE iter(_, _, _), next(_, _, _), reset_original_values(_, _, _)

\* [iter(p) for p in self.planners] from child k on: stops at the first
\* exception, the children before it stay begun.
RECURSIVE IterAll(_, _, _, _)
IterAll(p, k, path, env) ==
    IF k > Len(p.planners) THEN Ret(p, env, "", <<>>)
    ELSE LET r == iter(p.planners[k], Append(path, k), env)
             p1 == [p EXCEPT !.planners[k] = r.p]
         IN  IF r.exc # "" THEN Ret(p1, r.env, r.exc, <<>>)
             ELSE IterAll(p1, k + 1, path, r.env)

\* [next(it) for it in self._planners_iterators] from child k on; names
\* collects the children's names.  A slot that is None raises TypeError.
RECURSIVE NextAll(_, _, _, _, _)
\* Mutant: after a child raised, the remaining children are still advanced
\* before the exception is reported.
NextAll_goon(p, k, path, env, names) ==
    IF k > Len(p.planners) THEN Ret(p, env, "", names)
    ELSE IF ~ p.planners_iterators[k] THEN Ret(p, env, "TypeError", <<>>)
    ELSE LET r == next(p.planners[k], Append(path, k), env)
             p1 == [p EXCEPT !.planners[k] = r.p]
         IN  IF r.exc # ""
             THEN LET rest == NextAll(p1, k + 1, path, r.env, names)
                  IN  Ret(rest.p, rest.env, r.exc, <<>>)
             ELSE NextAll(p1, k + 1, path, r.env, Append(names, r.name[1]))

\* Mutant: the children are advanced from the last to the first (the names
\* are still collected in child order).
NextAll_backward(p, k, path, env, names) ==
    IF k > Len(p.planners) THEN Ret(p, env, "", names)
    ELSE LET j == Len(p.planners) - k + 1
         IN  IF ~ p.planners_iterators[j] THEN Ret(p, env, "TypeError", <<>>)
             ELSE LET r == next(p.planners[j], Append(path, j), env)
                      p1 == [p EXCEPT !.planners[j] = r.p]
                  IN  IF r.exc # "" THEN Ret(p1, r.env, r.exc, <<>>)
                      ELSE NextAll(p1, k + 1, path, r.env, <<r.name[1]>> \o names)

NextAll(p, k, path, env, names) ==
    IF k > Len(p.planners) THEN Ret(p, env, "", names)
    ELSE IF ~ p.planners_iterators[k] THEN Ret(p, env, "TypeError", <<>>)
    ELSE LET r == next(p.planners[k], Append(path, k), env)
             p1 == [p EXCEPT !.planners[k] = r.p]
         IN  IF r.exc # "" THEN Ret(p1, r.env, r.exc, <<>>)
             ELSE NextAll(p1, k + 1, path, r.env, Append(names, r.name[1]))

\* for p in self.planners: p.reset_original_values(), from child k on.
RECURSIVE ResetAll(_, _, _, _)
ResetAll(p, k, path, env) ==
    IF k > Len(p.planners) THEN Ret(p, env, "", <<>>)
    ELSE LET r == reset_original_values(p.planners[k], Append(path, k), env)
             p1 == [p EXCEPT !.planners[k] = r.p]
         IN  IF r.exc # "" THEN Ret(p1, r.env, r.exc, <<>>)
             ELSE ResetAll(p1, k + 1, path, r.env)

(* Planner *)

\* Mutant: the begin of a leaf does not read the setting (the original
\* value is not captured), so a name the store does not have is noticed
\* only by the first write.
Planner_iter_lazy(p, path, env) ==
    Ret([p EXCEPT !.setting_original_value = << <<>> >>, !.values_iterator = <<0>>],
        env, "", <<>>)

Planner_iter(p, path, env) ==
    IF p.setting_name \notin DOMAIN env.settings
    THEN Ret(p, env, "AttributeError", <<>>)
    ELSE Ret([p EXCEPT !.setting_original_value = <<env.settings[p.setting_name]>>,
                       !.values_iterator = <<0>>],
             GetAttr(env, p.setting_name, path), "", <<>>)

Planner_format_name(p, value) ==
    IF p.runs_basename # "" THEN basename(p)
    ELSE <<p.setting_name, "-">> \o StrValue(p.setting_name, value)

\* Mutant: the values are indexed by position instead of iterated, so the
\* advance past the last value raises IndexError.
Planner_next_indexed(p, path, env) ==
    LET p1 == [p EXCEPT !.num_count = @ + 1]
    IN  IF p1.values_iterator = <<>> THEN Ret(p1, env, "TypeError", <<>>)
        ELSE LET pos == p1.values_iterator[1]
             IN  IF pos >= Len(p1.setting_values)
                 THEN Ret(p1, env, "IndexError", <<>>)
                 ELSE LET value == p1.setting_values[pos + 1]
                          p2 == [p1 EXCEPT !.values_iterator = <<pos + 1>>]
                          w == SetAttr(env, p2.setting_name, value, path)
                      IN  IF w.exc # "" THEN Ret(p2, w.env, w.exc, <<>>)
                          ELSE Ret(p2, w.env, "", <<Planner_format_name(p2, value)>>)

\* Mutant: an exhausted leaf writes its last value again before it signals
\* end-of-sequence.
Planner_next_rewrite(p, path, env) ==
    LET p1 == [p EXCEPT !.num_count = @ + 1]
    IN  IF p1.values_iterator = <<>> THEN Ret(p1, env, "TypeError", <<>>)
        ELSE LET pos == p1.values_iterator[1]
             IN  IF pos >= Len(p1.setting_values)
                 THEN IF pos = 0 THEN Ret(p1, env, "StopIteration", <<>>)
                      ELSE Ret(p1, SetAttr(env, p1.setting_name, p1.setting_values[pos], path).env,
                               "StopIteration", <<>>)
                 ELSE LET value == p1.setting_values[pos + 1]
                          p2 == [p1 EXCEPT !.values_iterator = <<pos + 1>>]
                          w == SetAttr(env, p2.setting_name, value, path)
                      IN  IF w.exc # "" THEN Ret(p2, w.env, w.exc, <<>>)
                          ELSE Ret(p2, w.env, "", <<Planner_format_name(p2, value)>>)

\* Mutant: the leaf returns its name without writing the value.
Planner_next_nowrite(p, path, env) ==
    LET p1 == [p EXCEPT !.num_count = @ + 1]
    IN  IF p1.values_iterator = <<>> THEN Ret(p1, env, "TypeError", <<>>)
        ELSE LET pos == p1.values_iterator[1]
             IN  IF pos >= Len(p1.setting_values)
                 THEN Ret(p1, env, "StopIteration", <<>>)
                 ELSE LET value == p1.setting_values[pos + 1]
                          p2 == [p1 EXCEPT !.values_iterator = <<pos + 1>>]
                      IN  Ret(p2, env, "", <<Planner_format_name(p2, value)>>)

\* Mutant: the leaf reports exhaustion one value early.
Planner_next_short(p, path, env) ==
    LET p1 == [p EXCEPT !.num_count = @ + 1]
    IN  IF p1.values_iterator = <<>> THEN Ret(p1, env, "TypeError", <<>>)
        ELSE LET pos == p1.values_iterator[1]
             IN  IF pos + 1 >= Len(p1.setting_values)
                 THEN Ret(p1, env, "StopIteration", <<>>)
                 ELSE LET value == p1.setting_values[pos + 1]
                          p2 == [p1 EXCEPT !.values_iterator = <<pos + 1>>]
                          w == SetAttr(env, p2.setting_name, value, path)
                      IN  IF w.exc # "" THEN Ret(p2, w.env, w.exc, <<>>)
                          ELSE Ret(p2, w.env, "", <<Planner_format_name(p2, value)>>)

Planner_next(p, path, env) ==
    LET p1 == [p EXCEPT !.num_count = @ + 1]
    IN  IF p1.values_iterator = <<>> THEN Ret(p1, env, "TypeError", <<>>)
        ELSE LET pos == p1.values_iterator[1]
             IN  IF pos >= Len(p1.setting_values)
                 THEN Ret(p1, env, "StopIteration", <<>>)
                 ELSE LET value == p1.setting_values[pos + 1]
                          p2 == [p1 EXCEPT !.values_iterator = <<pos + 1>>]
                          w == SetAttr(env, p2.setting_name, value, path)
                      IN  IF w.exc # "" THEN Ret(p2, w.env, w.exc, <<>>)
                          ELSE Ret(p2, w.env, "", <<Planner_format_name(p2, value)>>)

Planner_reset_original_values(p, path, env) ==
    IF p.values_iterator = <<>> THEN Ret(p, env, "", <<>>)
    ELSE LET e1 == GetAttr(env, p.setting_name, path)
         IN  IF e1.settings[p.setting_name] # p.setting_original_value[1]
             THEN LET w == SetAttr(e1, p.setting_name, p.setting_original_value[1], path)
                  IN  Ret(p, w.env, w.exc, <<>>)
             ELSE Ret(p, e1, "", <<>>)

(* SequencePlanner *)

\* iter(self.planners) followed by next() of it leaves the list iterator
\* after the first child; current_planner_iterator names the child the
\* iterator slot aliases (1-based), current_planner_id is the code's
\* 0-based index.
SequencePlanner_iter(p, path, env) ==
    LET p1 == [p EXCEPT !.planners_iterator = <<1>>, !.current_planner_id = 0]
        r == iter(p1.planners[1], Append(path, 1), env)
        p2 == [p1 EXCEPT !.planners[1] = r.p]
    IN  IF r.exc # "" THEN Ret(p2, r.env, r.exc, <<>>)
        ELSE Ret([p2 EXCEPT !.current_planner_iterator = <<1>>], r.env, "", <<>>)

SequencePlanner_format_name(p, sub_run_name) ==
    IF p.runs_basename # "" THEN basename(p) ELSE sub_run_name

\* Mutant: the child that ended is restored only when another child follows.
SequencePlanner_next_nolast(p, path, env) ==
    LET p1 == [p EXCEPT !.num_count = @ + 1]
    IN  IF p1.current_planner_iterator = <<>> THEN Ret(p1, env, "TypeError", <<>>)
        ELSE
        LET c == p1.current_planner_iterator[1]
            r == next(p1.planners[c], Append(path, c), env)
            p2 == [p1 EXCEPT !.planners[c] = r.p]
        IN  IF r.exc = ""
            THEN Ret(p2, r.env, "", <<SequencePlanner_format_name(p2, r.name[1])>>)
            ELSE IF r.exc # "StopIteration" THEN Ret(p2, r.env, r.exc, <<>>)
            \* except StopIteration:
            ELSE IF p2.current_planner_id >= Len(p2.planners)
            THEN Ret(p2, r.env, "IndexError", <<>>)
            ELSE
            LET i == p2.current_planner_id + 1
                rr == IF p2.planners_iterator[1] >= Len(p2.planners)
                      THEN Ret(p2.planners[i], r.env, "", <<>>)
                      ELSE reset_original_values(p2.planners[i], Append(path, i), r.env)
                p3 == [p2 EXCEPT !.planners[i] = rr.p]
            IN  IF rr.exc # "" THEN Ret(p3, rr.env, rr.exc, <<>>)
                ELSE
                LET p4 == [p3 EXCEPT !.current_planner_id = @ + 1]
                    pos == p4.planners_iterator[1]
                IN  IF pos >= Len(p4.planners)
                    THEN Ret(p4, rr.env, "StopIteration", <<>>)
                    ELSE
                    LET p5 == [p4 EXCEPT !.planners_iterator = <<pos + 1>>]
                        ri == iter(p5.planners[pos + 1], Append(path, pos + 1), rr.env)
                        p6 == [p5 EXCEPT !.planners[pos + 1] = ri.p]
                    IN  IF ri.exc # "" THEN Ret(p6, ri.env, ri.exc, <<>>)
                        ELSE next([p6 EXCEPT !.current_planner_iterator = <<pos + 1>>],
                                  path, ri.env)

\* Mutant: the except clause catches every exception of the current child.
SequencePlanner_next_anyexc(p, path, env) ==
    LET p1 == [p EXCEPT !.num_count = @ + 1]
    IN  IF p1.current_planner_iterator = <<>> THEN Ret(p1, env, "TypeError", <<>>)
        ELSE
        LET c == p1.current_planner_iterator[1]
            r == next(p1.planners[c], Append(path, c), env)
            p2 == [p1 EXCEPT !.planners[c] = r.p]
        IN  IF r.exc = ""
            THEN Ret(p2, r.env, "", <<SequencePlanner_format_name(p2, r.name[1])>>)
            ELSE IF p2.current_planner_id >= Len(p2.planners)
            THEN Ret(p2, r.env, "IndexError", <<>>)
            ELSE
            LET i == p2.current_planner_id + 1
                rr == reset_original_values(p2.planners[i], Append(path, i), r.env)
                p3 == [p2 EXCEPT !.planners[i] = rr.p]
            IN  IF rr.exc # "" THEN Ret(p3, rr.env, rr.exc, <<>>)
                ELSE
                LET p4 == [p3 EXCEPT !.current_planner_id = @ + 1]
                    pos == p4.planners_iterator[1]
                IN  IF pos >= Len(p4.planners)
                    THEN Ret(p4, rr.env, "StopIteration", <<>>)
                    ELSE
                    LET p5 == [p4 EXCEPT !.planners_iterator = <<pos + 1>>]
                        ri == iter(p5.planners[pos + 1], Append(path, pos + 1), rr.env)
                        p6 == [p5 EXCEPT !.planners[pos + 1] = ri.p]
                    IN  IF ri.exc # "" THEN Ret(p6, ri.env, ri.exc, <<>>)
                        ELSE next([p6 EXCEPT !.current_planner_iterator = <<pos + 1>>],
                                  path, ri.env)

SequencePlanner_next(p, path, env) ==
    LET p1 == [p EXCEPT !.num_count = @ + 1]
    IN  IF p1.current_planner_iterator = <<>> THEN Ret(p1, env, "TypeError", <<>>)
        ELSE
        LET c == p1.current_planner_iterator[1]
            r == next(p1.planners[c], Append(path, c), env)
            p2 == [p1 EXCEPT !.planners[c] = r.p]
        IN  IF r.exc = ""
            THEN Ret(p2, r.env, "", <<SequencePlanner_format_name(p2, r.name[1])>>)
            ELSE IF r.exc # "StopIteration" THEN Ret(p2, r.env, r.exc, <<>>)
            \* except StopIteration:
            ELSE IF p2.current_planner_id >= Len(p2.planners)
            THEN Ret(p2, r.env, "IndexError", <<>>)
            ELSE
            LET i == p2.current_planner_id + 1
                rr == reset_original_values(p2.planners[i], Append(path, i), r.env)
                p3 == [p2 EXCEPT !.planners[i] = rr.p]
            IN  IF rr.exc # "" THEN Ret(p3, rr.env, rr.exc, <<>>)
                ELSE
                LET p4 == [p3 EXCEPT !.current_planner_id = @ + 1]
                    pos == p4.planners_iterator[1]
                IN  IF pos >= Len(p4.planners)
                    THEN Ret(p4, rr.env, "StopIteration", <<>>)
                    ELSE
                    LET p5 == [p4 EXCEPT !.planners_iterator = <<pos + 1>>]
                        ri == iter(p5.planners[pos + 1], Append(path, pos + 1), rr.env)
                        p6 == [p5 EXCEPT !.planners[pos + 1] = ri.p]
                    IN  IF ri.exc # "" THEN Ret(p6, ri.env, ri.exc, <<>>)
                        ELSE next([p6 EXCEPT !.current_planner_iterator = <<pos + 1>>],
                                  path, ri.env)

(* ParallelPlanner *)

ParallelPlanner_iter(p, path, env) ==
    LET r == IterAll(p, 1, path, env)
    IN  IF r.exc # "" THEN r
        ELSE Ret([r.p EXCEPT !.planners_iterators = [k \in 1..Len(p.planners) |-> TRUE]],
                 r.env, "", <<>>)

ParallelPlanner_format_name(p, sub_runs_name) ==
    IF p.runs_basename # "" THEN basename(p) ELSE Join(sub_runs_name)

\* Mutant: only the first child is advanced.
ParallelPlanner_next_first(p, path, env) ==
    LET p1 == [p EXCEPT !.num_count = @ + 1]
    IN  IF ~ p1.planners_iterators[1] THEN Ret(p1, env, "TypeError", <<>>)
        ELSE LET r == next(p1.planners[1], Append(path, 1), env)
                 p2 == [p1 EXCEPT !.planners[1] = r.p]
             IN  IF r.exc # "" THEN Ret(p2, r.env, r.exc, <<>>)
                 ELSE Ret(p2, r.env, "", <<ParallelPlanner_format_name(p2, <<r.name[1]>>)>>)

ParallelPlanner_next(p, path, env) ==
    LET p1 == [p EXCEPT !.num_count = @ + 1]
        r == NextAll(p1, 1, path, env, <<>>)
    IN  IF r.exc # "" THEN r
        ELSE Ret(r.p, r.env, "", <<ParallelPlanner_format_name(r.p, r.name)>>)

(* CombinatorPlanner *)

CombinatorPlanner_iter(p, path, env) ==
    LET r == IterAll(p, 1, path, env)
    IN  IF r.exc # "" THEN r
        ELSE Ret([r.p EXCEPT !.planners_iterators = [k \in 1..Len(p.planners) |-> TRUE]],
                 r.env, "", <<>>)

\* return self.format_name(): '_'.join raises TypeError on a None entry.
CombinatorPlanner_format_name(p, env) ==
    IF p.runs_basename # "" THEN Ret(p, env, "", <<basename(p)>>)
    ELSE IF \E k \in 1..Len(p.runs_name) : p.runs_name[k] = <<>>
    THEN Ret(p, env, "TypeError", <<>>)
    ELSE Ret(p, env, "", <<Join([k \in 1..Len(p.runs_name) |-> p.runs_name[k][1]])>>)

\* The loop `for i in range(len(self.planners))` from child i on (1-based).
RECURSIVE CombinatorPlanner_carry(_, _, _, _)
\* Mutant: an exhausted intermediate child is begun again but not stepped
\* to its first value (the second statement of the except branch dropped).
CombinatorPlanner_carry_nostep(p, i, path, env) ==
    IF i > Len(p.planners) THEN Ret(p, env, "", <<>>)
    ELSE
    LET r == next(p.planners[i], Append(path, i), env)
        p1 == [p EXCEPT !.planners[i] = r.p]
    IN  IF r.exc = ""
        THEN CombinatorPlanner_format_name([p1 EXCEPT !.runs_name[i] = r.name], r.env)
        ELSE IF r.exc # "StopIteration" THEN Ret(p1, r.env, r.exc, <<>>)
        ELSE IF i = Len(p.planners) THEN Ret(p1, r.env, "StopIteration", <<>>)
        ELSE
        LET ri == iter(p1.planners[i], Append(path, i), r.env)
            p2 == [p1 EXCEPT !.planners[i] = ri.p]
        IN  IF ri.exc # "" THEN Ret(p2, ri.env, ri.exc, <<>>)
            ELSE CombinatorPlanner_carry(p2, i + 1, path, ri.env)

\* Mutant: an exhausted intermediate child is stepped without being begun
\* again (the first statement of the except branch dropped).
CombinatorPlanner_carry_nobegin(p, i, path, env) ==
    IF i > Len(p.planners) THEN Ret(p, env, "", <<>>)
    ELSE IF ~ p.planners_iterators[i] THEN Ret(p, env, "TypeError", <<>>)
    ELSE
    LET r == next(p.planners[i], Append(path, i), env)
        p1 == [p EXCEPT !.planners[i] = r.p]
    IN  IF r.exc = ""
        THEN CombinatorPlanner_format_name([p1 EXCEPT !.runs_name[i] = r.name], r.env)
        ELSE IF r.exc # "StopIteration" THEN Ret(p1, r.env, r.exc, <<>>)
        ELSE IF i = Len(p.planners) THEN Ret(p1, r.env, "StopIteration", <<>>)
        ELSE
        LET rn == next(p1.planners[i], Append(path, i), r.env)
            p3 == [p1 EXCEPT !.planners[i] = rn.p]
        IN  IF rn.exc # "" THEN Ret(p3, rn.env, rn.exc, <<>>)
            ELSE CombinatorPlanner_carry([p3 EXCEPT !.runs_name[i] = rn.name],
                                         i + 1, path, rn.env)

\* Mutant: the name of a child stepped to its first value after a reset is
\* not stored in runs_name (the assignment of the except branch dropped).
CombinatorPlanner_carry_nocache(p, i, path, env) ==
    IF i > Len(p.planners) THEN Ret(p, env, "", <<>>)
    ELSE IF ~ p.planners_iterators[i] THEN Ret(p, env, "TypeError", <<>>)
    ELSE
    LET r == next(p.planners[i], Append(path, i), env)
        p1 == [p EXCEPT !.planners[i] = r.p]
    IN  IF r.exc = ""
        THEN CombinatorPlanner_format_name([p1 EXCEPT !.runs_name[i] = r.name], r.env)
        ELSE IF r.exc # "StopIteration" THEN Ret(p1, r.env, r.exc, <<>>)
        ELSE IF i = Len(p.planners) THEN Ret(p1, r.env, "StopIteration", <<>>)
        ELSE
        LET ri == iter(p1.planners[i], Append(path, i), r.env)
            p2 == [p1 EXCEPT !.planners[i] = ri.p]
        IN  IF ri.exc # "" THEN Ret(p2, ri.env, ri.exc, <<>>)
            ELSE
            LET rn == next(p2.planners[i], Append(path, i), ri.env)
                p3 == [p2 EXCEPT !.planners[i] = rn.p]
            IN  IF rn.exc # "" THEN Ret(p3, rn.env, rn.exc, <<>>)
                ELSE CombinatorPlanner_carry(p3, i + 1, path, rn.env)

\* Mutant: the name returned by the advanced child is not stored in
\* runs_name, so the cached fragment is used.
CombinatorPlanner_carry_stale(p, i, path, env) ==
    IF i > Len(p.planners) THEN Ret(p, env, "", <<>>)
    ELSE IF ~ p.planners_iterators[i] THEN Ret(p, env, "TypeError", <<>>)
    ELSE
    LET r == next(p.planners[i], Append(path, i), env)
        p1 == [p EXCEPT !.planners[i] = r.p]
    IN  IF r.exc = ""
        THEN CombinatorPlanner_format_name(p1, r.env)
        ELSE IF r.exc # "StopIteration" THEN Ret(p1, r.env, r.exc, <<>>)
        ELSE IF i = Len(p.planners) THEN Ret(p1, r.env, "StopIteration", <<>>)
        ELSE
        LET ri == iter(p1.planners[i], Append(path, i), r.env)
            p2 == [p1 EXCEPT !.planners[i] = ri.p]
        IN  IF ri.exc # "" THEN Ret(p2, ri.env, ri.exc, <<>>)
            ELSE
            LET rn == next(p2.planners[i], Append(path, i), ri.env)
                p3 == [p2 EXCEPT !.planners[i] = rn.p]
            IN  IF rn.exc # "" THEN Ret(p3, rn.env, rn.exc, <<>>)
                ELSE CombinatorPlanner_carry([p3 EXCEPT !.runs_name[i] = rn.name],
                                             i + 1, path, rn.env)

\* Mutant: the end of the sweep is detected before any child is touched
\* (when every child from i on is a leaf past its last value, the loop
\* raises StopIteration without resetting the children before the last).
CombinatorPlanner_carry_peek(p, i, path, env) ==
    IF i > Len(p.planners) THEN Ret(p, env, "", <<>>)
    ELSE IF ~ p.planners_iterators[i] THEN Ret(p, env, "TypeError", <<>>)
    ELSE IF \A j \in i..Len(p.planners) :
                /\ p.planners[j].kind = "Planner"
                /\ p.planners[j].values_iterator # <<>>
                /\ p.planners[j].values_iterator[1] >= Len(p.planners[j].setting_values)
    THEN Ret(p, env, "StopIteration", <<>>)
    ELSE
    LET r == next(p.planners[i], Append(path, i), env)
        p1 == [p EXCEPT !.planners[i] = r.p]
    IN  IF r.exc = ""
        THEN CombinatorPlanner_format_name([p1 EXCEPT !.runs_name[i] = r.name], r.env)
        ELSE IF r.exc # "StopIteration" THEN Ret(p1, r.env, r.exc, <<>>)
        ELSE IF i = Len(p.planners) THEN Ret(p1, r.env, "StopIteration", <<>>)
        ELSE
        LET ri == iter(p1.planners[i], Append(path, i), r.env)
            p2 == [p1 EXCEPT !.planners[i] = ri.p]
        IN  IF ri.exc # "" THEN Ret(p2, ri.env, ri.exc, <<>>)
            ELSE
            LET rn == next(p2.planners[i], Append(path, i), ri.env)
                p3 == [p2 EXCEPT !.planners[i] = rn.p]
            IN  IF rn.exc # "" THEN Ret(p3, rn.env, rn.exc, <<>>)
                ELSE CombinatorPlanner_carry([p3 EXCEPT !.runs_name[i] = rn.name],
                                             i + 1, path, rn.env)

\* Mutant: in the root object the StopIteration of the last child is
\* handled like that of an intermediate child (the test
\* `i == len(self.planners) - 1` fails there), so the loop can run off its
\* end and the method return None.
CombinatorPlanner_carry_fall(p, i, path, env) ==
    IF i > Len(p.planners) THEN Ret(p, env, "", <<>>)
    ELSE IF ~ p.planners_iterators[i] THEN Ret(p, env, "TypeError", <<>>)
    ELSE
    LET r == next(p.planners[i], Append(path, i), env)
        p1 == [p EXCEPT !.planners[i] = r.p]
    IN  IF r.exc = ""
        THEN CombinatorPlanner_format_name([p1 EXCEPT !.runs_name[i] = r.name], r.env)
        ELSE IF r.exc # "StopIteration" THEN Ret(p1, r.env, r.exc, <<>>)
        ELSE IF i = Len(p.planners) /\ path # <<>> THEN Ret(p1, r.env, "StopIteration", <<>>)
        ELSE
        LET ri == iter(p1.planners[i], Append(path, i), r.env)
            p2 == [p1 EXCEPT !.planners[i] = ri.p]
        IN  IF ri.exc # "" THEN Ret(p2, ri.env, ri.exc, <<>>)
            ELSE
            LET rn == next(p2.planners[i], Append(path, i), ri.env)
                p3 == [p2 EXCEPT !.planners[i] = rn.p]
            IN  IF rn.exc # "" THEN Ret(p3, rn.env, rn.exc, <<>>)
                ELSE CombinatorPlanner_carry([p3 EXCEPT !.runs_name[i] = rn.name],
                                             i + 1, path, rn.env)

CombinatorPlanner_carry(p, i, path, env) ==
    IF i > Len(p.planners) THEN Ret(p, env, "", <<>>)
    ELSE IF ~ p.planners_iterators[i] THEN Ret(p, env, "TypeError", <<>>)
    ELSE
    LET r == next(p.planners[i], Append(path, i), env)
        p1 == [p EXCEPT !.planners[i] = r.p]
    IN  IF r.exc = ""
        THEN CombinatorPlanner_format_name([p1 EXCEPT !.runs_name[i] = r.name], r.env)
        ELSE IF r.exc # "StopIteration" THEN Ret(p1, r.env, r.exc, <<>>)
        \* except StopIteration:
        ELSE IF i = Len(p.planners) THEN Ret(p1, r.env, "StopIteration", <<>>)
        ELSE
        LET ri == iter(p1.planners[i], Append(path, i), r.env)
            p2 == [p1 EXCEPT !.planners[i] = ri.p]
        IN  IF ri.exc # "" THEN Ret(p2, ri.env, ri.exc, <<>>)
            ELSE
            LET rn == next(p2.planners[i], Append(path, i), ri.env)
                p3 == [p2 EXCEPT !.planners[i] = rn.p]
            IN  IF rn.exc # "" THEN Ret(p3, rn.env, rn.exc, <<>>)
                ELSE CombinatorPlanner_carry([p3 EXCEPT !.runs_name[i] = rn.name],
                                             i + 1, path, rn.env)

CombinatorPlanner_next(p, path, env) ==
    LET p1 == [p EXCEPT !.num_count = @ + 1]
    IN  IF p1.first_iter
        THEN LET r == NextAll([p1 EXCEPT !.first_iter = FALSE], 1, path, env, <<>>)
             IN  IF r.exc # "" THEN r
                 ELSE CombinatorPlanner_format_name(
                          [r.p EXCEPT !.runs_name = [k \in 1..Len(r.name) |-> <<r.name[k]>>]],
                          r.env)
        ELSE CombinatorPlanner_carry(p1, 1, path, env)

(* dispatch on the class of the object *)

\* `stopped` after a call: a begin that did not raise clears it, an advance
\* that raised StopIteration sets it.
Begun(r) == IF r.exc # "" THEN r ELSE [r EXCEPT !.p.stopped = FALSE]

Advanced(r, was) == [r EXCEPT !.p.stopped = was \/ r.exc = "StopIteration"]

\* the result of the call is the one element of a tuple, so that it is
\* computed once and then marked through @
iter(p, path, env) ==
    [<<CASE p.kind = "Planner" -> Planner_iter(p, path, env)
         [] p.kind = "SequencePlanner" -> SequencePlanner_iter(p, path, env)
         [] p.kind = "ParallelPlanner" -> ParallelPlanner_iter(p, path, env)
         [] p.kind = "CombinatorPlanner" -> CombinatorPlanner_iter(p, path, env)>>
     EXCEPT ![1] = Begun(@)][1]

next(p, path, env) ==
    LET e1 == IF p.stopped THEN [env EXCEPT !.late = Append(@, path)] ELSE env
    IN  [<<CASE p.kind = "Planner" -> Planner_next(p, path, e1)
             [] p.kind = "SequencePlanner" -> SequencePlanner_next(p, path, e1)
             [] p.kind = "ParallelPlanner" -> ParallelPlanner_next(p, path, e1)
             [] p.kind = "CombinatorPlanner" -> CombinatorPlanner_next(p, path, e1)>>
         EXCEPT ![1] = Advanced(@, p.stopped)][1]

reset_original_values(p, path, env) ==
    CASE p.kind = "Planner" -> Planner_reset_original_values(p, path, env)
      [] OTHER -> ResetAll(p, 1, path, env)

(* ------------------------------- the logger --------------------------- *)

\* The level arguments of this model: names logging knows, and the lower
\* case "debug", which Settings.validate accepts (it compares the upper
\* case) and logging does not know.
LevelNames == {"NOTSET", "DEBUG", "WARNING", "debug"}

\* logging._checkLevel on a name: <<the numeric level>>, <<>> when it
\* raises ValueError (unknown level).
checkLevel(level) ==
    CASE level = "NOTSET" -> <<0>>
      [] level = "DEBUG" -> <<10>>
      [] level = "WARNING" -> <<30>>
      [] OTHER -> <<>>

min(a, b) == IF a <= b THEN a ELSE b

\* The file_path arguments of this model: None (<<>>), the log file of two
\* run directories that exist, and a file in a directory that does not.
LogPaths == { <<>>, <<"out/a/run.log">>, <<"out/b/run.log">>, <<"nodir/run.log">> }

\* file_path.parent.is_dir()
ParentIsDir(file_path) == file_path \in {"out/a/run.log", "out/b/run.log"}

\* SexyLogger.__init__ with its default arguments (the singleton): a
\* console handler at level 0, no file handler, global level 0.  A
\* handler is its level (and its path, for a file handler); `handlers`
\* lists what addHandler added, "console" or the path of a file handler.
SexyLogger ==
    [console_handler |-> [level |-> 0], file_handler |-> <<>>, level |-> 0,
     handlers |-> <<"console">>]

\* SexyLogger.set_console_level: the logger afterwards and the exception
\* raised ("" when it returns).
set_console_level(lg, level) ==
    IF checkLevel(level) = <<>> THEN [logger |-> lg, exc |-> "ValueError"]
    ELSE LET l1 == [lg EXCEPT !.console_handler.level = checkLevel(level)[1]]
         IN  [logger |-> [l1 EXCEPT !.level =
                              IF l1.file_handler = <<>> THEN checkLevel(level)[1]
                              ELSE min(l1.console_handler.level, l1.file_handler[1].level)],
              exc |-> ""]

\* SexyLogger.set_file_level
set_file_level(lg, level) ==
    IF lg.file_handler = <<>> THEN [logger |-> lg, exc |-> "AttributeError"]
    ELSE IF checkLevel(level) = <<>> THEN [logger |-> lg, exc |-> "ValueError"]
    ELSE LET l1 == [lg EXCEPT !.file_handler[1].level = checkLevel(level)[1]]
         IN  [logger |-> [l1 EXCEPT !.level =
                              min(l1.console_handler.level, l1.file_handler[1].level)],
              exc |-> ""]

\* Mutant: an enabled file handler is replaced and a second one added
\* (the test `self.file_handler is not None` dropped).
enable_log_file_again(lg, file_path, file_log_level) ==
    IF file_path = <<>> \/ ~ ParentIsDir(file_path[1])
    THEN [logger |-> lg, exc |-> "ValueError"]
    ELSE LET l1 == [lg EXCEPT !.file_handler = <<[path |-> file_path[1], level |-> 0]>>]
             r == set_file_level(l1, file_log_level)
         IN  IF r.exc # "" THEN r
             ELSE [logger |-> [r.logger EXCEPT !.handlers = Append(@, file_path[1])],
                   exc |-> ""]

\* SexyLogger.enable_log_file: nothing when a file handler is set; else
\* the path is checked, the FileHandler is created (at level 0) and
\* assigned, its level is set through set_file_level, and it is added to
\* the logger.
enable_log_file(lg, file_path, file_log_level) ==
    IF lg.file_handler # <<>> THEN [logger |-> lg, exc |-> ""]
    ELSE IF file_path = <<>> \/ ~ ParentIsDir(file_path[1])
    THEN [logger |-> lg, exc |-> "ValueError"]
    ELSE LET l1 == [lg EXCEPT !.file_handler = <<[path |-> file_path[1], level |-> 0]>>]
             r == set_file_level(l1, file_log_level)
         IN  IF r.exc # "" THEN r
             ELSE [logger |-> [r.logger EXCEPT !.handlers = Append(@, file_path[1])],
                   exc |-> ""]

(* ---------------------------- state machine --------------------------- *)

\* plan      the constructor expression the caller wrote
\* planner   the root object: <<>> before construction and when the
\*           constructor raised, <<object>> otherwise
\* settings  the settings singleton
\* pc        "new" before construction, "failed" when the constructor
\*           raised ValueError, "ready" when the object exists
\* last      the last call made on the root and how it ended
\* passes    one entry per begin of the root: the advances made since, each
\*           [exc, name, writes]
\* runs      the runs start_planner started, each [name, fault, exc,
\*           clean_ups]
\* main      what `from main import main` of runs_planner.py binds:
\*           "unbound" (main.py defines no main, the import raises
\*           ImportError) or "start_run", the run entry point of run.py
\* logger    the logger singleton of utils/logger.py
VARIABLES plan, planner, settings, pc, last, passes, runs, main, logger

vars == <<plan, planner, settings, pc, last, passes, runs, main, asserts, logger>>

Call(op, r) ==
    [op |-> op, exc |-> r.exc, name |-> r.name, writes |-> r.env.writes,
     reads |-> r.env.reads, late |-> r.env.late]

Init ==
    /\ plan \in Plans
    /\ planner = <<>>
    /\ settings = DefaultSettings
    /\ pc = "new"
    /\ last = [op |-> "none", exc |-> "", name |-> <<>>, writes |-> <<>>, reads |-> <<>>,
                late |-> <<>>]
    /\ passes = <<>>
    /\ runs = <<>>
    /\ main = "unbound"
    /\ asserts = TRUE
    /\ logger = SexyLogger

\* The caller evaluates the constructor expression.
Construct ==
    /\ pc = "new"
    /\ planner' = New(plan)
    /\ pc' = IF planner' = <<>> THEN "failed" ELSE "ready"
    /\ last' = [op |-> "construct", exc |-> IF planner' = <<>> THEN "ValueError" ELSE "",
                name |-> <<>>, writes |-> <<>>, reads |-> <<>>,
                late |-> <<>>]
    /\ UNCHANGED <<plan, settings, passes, runs, main, asserts, logger>>

\* The advances of a pass that ended in StopIteration.
Stops(pass) == { k \in 1..Len(pass) : pass[k].exc = "StopIteration" }

\* An exception other than StopIteration ends the caller's loop.
Crashed == last.exc \notin {"", "StopIteration"}

\* iter(planner): the first begin, or a restart after end-of-sequence.
Begin ==
    /\ pc = "ready"
    /\ ~ Crashed
    /\ Len(passes) < MaxPasses
    /\ passes # <<>> => Stops(passes[Len(passes)]) # {}
    /\ LET r == iter(planner[1], <<>>, NewEnv(settings))
       IN  /\ planner' = <<r.p>>
           /\ settings' = r.env.settings
           /\ last' = Call("begin", r)
           /\ passes' = Append(passes, <<>>)
    /\ UNCHANGED <<plan, pc, runs, main, asserts, logger>>

\* next(planner)
Advance ==
    /\ pc = "ready"
    /\ ~ Crashed
    /\ passes # <<>>
    /\ LET pass == passes[Len(passes)]
       IN  \A k \in Stops(pass) : Len(pass) - k < MaxAfterStop
    /\ LET r == next(planner[1], <<>>, NewEnv(settings))
       IN  /\ planner' = <<r.p>>
           /\ settings' = r.env.settings
           /\ last' = Call("advance", r)
           /\ passes' = [passes EXCEPT ![Len(passes)] =
                            Append(@, [exc |-> r.exc, name |-> r.name,
                                       writes |-> r.env.writes])]
    /\ UNCHANGED <<plan, pc, runs, main, asserts, logger>>

Next == Construct \/ Begin \/ Advance

Spec == Init /\ [][Next]_vars

(* ------------------------------ properties ----------------------------- *)

\* The root is a composite of the given class over leaves only.
FlatOver(kind) ==
    /\ plan.kind = kind
    /\ plan.planners # <<>>
    /\ \A k \in 1..Len(plan.planners) : plan.planners[k].kind = "Planner"

ChildLen(k) == Len(plan.planners[k].setting_values)

\* Every value of every leaf of an expression passes the assertions of
\* validate.
RECURSIVE Accepted(_)
Accepted(e) ==
    IF e.kind = "Planner"
    THEN \A i \in 1..Len(e.setting_values) :
             Asserted([DefaultSettings EXCEPT ![e.setting_name] = e.setting_values[i]])
    ELSE \A k \in 1..Len(e.planners) : Accepted(e.planners[k])

RECURSIVE ProdLen(_)
ProdLen(k) == IF k = 0 THEN 1 ELSE ChildLen(k) * ProdLen(k - 1)

\* Digit i of m in the mixed-radix system whose radices are the
\* children's lengths, child 1 least significant.
OdoDigit(i, m) == (m \div ProdLen(i - 1)) % ChildLen(i)

\* The advances of a pass up to and including the first one that did not
\* return a name.
RECURSIVE UpToStop(_)
UpToStop(pass) ==
    IF pass = <<>> THEN <<>>
    ELSE IF Head(pass).exc # "" THEN <<Head(pass)>>
    ELSE <<Head(pass)>> \o UpToStop(Tail(pass))

\* A pass that ran to end-of-sequence.
Complete(pass) == pass # <<>> /\ UpToStop(pass)[Len(UpToStop(pass))].exc = "StopIteration"

\* The number of names a pass produced before its first end-of-sequence.
Produced(pass) == Cardinality({ k \in 1..Len(UpToStop(pass)) : pass[k].exc = "" })

\* C1: a CombinatorPlanner over n >= 1 non-empty leaves whose values the
\* store accepts, on its first pass:
\* the k-th advance succeeds iff k is at most the product of the lengths,
\* the next one signals end-of-sequence, and after the k-th successful
\* advance the setting of child i holds the value at digit i of k - 1 in
\* the mixed-radix system with child 1 least significant (so the store
\* runs through the Cartesian product once, child 1 fastest).
C1_Odometer ==
    ( /\ FlatOver("CombinatorPlanner")
      /\ \A i \in 1..Len(plan.planners) : ChildLen(i) >= 1
      /\ Accepted(plan)
      /\ Len(passes) = 1 )
    => LET pass == passes[1]
           n == Len(plan.planners)
           total == ProdLen(n)
       IN  /\ \A k \in 1..Len(pass) :
                 /\ k <= total => pass[k].exc = ""
                 /\ k = total + 1 => pass[k].exc = "StopIteration"
           /\ Len(pass) \in 1..total =>
                 \A i \in 1..n :
                     settings[plan.planners[i].setting_name]
                         = plan.planners[i].setting_values[OdoDigit(i, Len(pass) - 1) + 1]

\* C1 witness: three leaves of two values each, enumerated to the end.
C1_Witness ==
    /\ FlatOver("CombinatorPlanner")
    /\ Len(plan.planners) = 3
    /\ \A i \in 1..3 : ChildLen(i) = 2
    /\ Len(passes) = 1
    /\ Len(passes[1]) = 9
    /\ last.exc = "StopIteration"

\* C5: a leaf over n values, on every pass: for i <= n the i-th advance
\* returns a name and writes exactly the i-th value to the leaf's
\* setting, and the (n+1)-th signals end-of-sequence and writes nothing.
C5_Leaf ==
    plan.kind = "Planner" =>
        \A q \in 1..Len(passes) : \A i \in 1..Len(passes[q]) :
            LET n == Len(plan.setting_values)
                ev == passes[q][i]
            IN  /\ i <= n =>
                      /\ ev.exc = ""
                      /\ ev.writes = <<[name |-> plan.setting_name,
                                        value |-> plan.setting_values[i],
                                        by |-> <<>>]>>
                /\ i = n + 1 => ev.exc = "StopIteration" /\ ev.writes = <<>>

\* C5 witness: a leaf of two values advanced three times.
C5_Witness ==
    /\ plan.kind = "Planner"
    /\ Len(plan.setting_values) = 2
    /\ Len(passes) = 1
    /\ Len(passes[1]) = 3
    /\ passes[1][3].exc = "StopIteration"

\* Every leaf of an expression has at least one value.
RECURSIVE AllLeavesNonEmpty(_)
AllLeavesNonEmpty(e) ==
    IF e.kind = "Planner" THEN e.setting_values # <<>>
    ELSE \A k \in 1..Len(e.planners) : AllLeavesNonEmpty(e.planners[k])

\* The settings the first entry of an expression writes, with their
\* values: a leaf's first value; for a Parallel or a Combinator the first
\* entries of all children; for a Sequence that of its first child.
RECURSIVE FirstEntry(_)
FirstEntry(e) ==
    CASE e.kind = "Planner" ->
             {[name |-> e.setting_name, value |-> e.setting_values[1]]}
      [] e.kind = "SequencePlanner" -> FirstEntry(e.planners[1])
      [] OTHER -> UNION { FirstEntry(e.planners[k]) : k \in 1..Len(e.planners) }

\* The child of the root under which the last write of an advance was made.
Producer(ev) == Head(ev.writes[Len(ev.writes)].by)

RECURSIVE SumLen(_)
SumLen(k) == IF k = 0 THEN 0 ELSE len(planner[1].planners[k]) + SumLen(k - 1)

\* C2 (as claimed): a well-formed planner (it constructs, every leaf has a
\* value) that was begun once and advanced to end-of-sequence has produced
\* exactly length() names.
C2_LengthNames ==
    ( /\ pc = "ready"
      /\ AllLeavesNonEmpty(plan)
      /\ Len(passes) = 1
      /\ Complete(passes[1]) )
    => Produced(passes[1]) = len(planner[1])

\* C3 (as claimed): in the first pass of a CombinatorPlanner, after a
\* successful advance in which a non-last child i was exhausted (a child
\* after i was written), every setting under child i holds the value of
\* child i's first entry.
C3_CarryResets ==
    ( /\ pc = "ready"
      /\ plan.kind = "CombinatorPlanner"
      /\ AllLeavesNonEmpty(plan)
      /\ Len(passes) = 1
      /\ Len(passes[1]) >= 2
      /\ last.op = "advance"
      /\ last.exc = "" )
    => \A i \in 1..(Len(plan.planners) - 1) :
           (\E w \in 1..Len(last.writes) : Head(last.writes[w].by) > i)
           => \A f \in FirstEntry(plan.planners[i]) : settings[f.name] = f.value

\* C4 (as claimed): a pass begun right after a pass that ran to
\* end-of-sequence, itself run to end-of-sequence, repeats the first
\* pass: the same names and the same store writes, in the same number.
C4_Restart ==
    ( /\ Len(passes) >= 2
      /\ Complete(passes[1])
      /\ passes[1] = UpToStop(passes[1])
      /\ Complete(passes[2]) )
    => UpToStop(passes[2]) = passes[1]

\* C6 (as claimed): in the first pass of SequencePlanner([A, B, ...]) the
\* first length(A) advances return names produced by A, the next
\* length(B) names produced by B, and so on, and the advance after the
\* sum of the lengths signals end-of-sequence.
C6_SequenceOrder ==
    ( /\ pc = "ready"
      /\ plan.kind = "SequencePlanner"
      /\ Len(passes) = 1 )
    => \A k \in 1..Len(passes[1]) :
           LET ev == passes[1][k]
               n == Len(plan.planners)
           IN  /\ k <= SumLen(n) =>
                     /\ ev.exc = ""
                     /\ SumLen(Producer(ev) - 1) < k
                     /\ k <= SumLen(Producer(ev))
               /\ k = SumLen(n) + 1 => ev.exc = "StopIteration"

\* C7: a ParallelPlanner over leaves of common length m whose values the
\* store accepts, on every pass:
\* for i <= m the i-th advance succeeds and writes, child after child in
\* child order, the i-th value of each child (so the store then holds the
\* i-th value of every child); the (m+1)-th signals end-of-sequence and
\* writes nothing.
C7_Parallel ==
    (pc = "ready" /\ FlatOver("ParallelPlanner") /\ Accepted(plan)) =>
        LET n == Len(plan.planners)
            m == ChildLen(1)
        IN  /\ \A q \in 1..Len(passes) : \A i \in 1..Len(passes[q]) :
                  /\ i <= m =>
                        /\ passes[q][i].exc = ""
                        /\ passes[q][i].writes =
                               [k \in 1..n |-> [name |-> plan.planners[k].setting_name,
                                                value |-> plan.planners[k].setting_values[i],
                                                by |-> <<k>>]]
                  /\ i = m + 1 =>
                        /\ passes[q][i].exc = "StopIteration"
                        /\ passes[q][i].writes = <<>>
            /\ (passes # <<>> /\ Len(passes[Len(passes)]) \in 1..m) =>
                  \A k \in 1..n :
                      settings[plan.planners[k].setting_name]
                          = plan.planners[k].setting_values[Len(passes[Len(passes)])]

\* C7 witness: three leaves of two values each, advanced three times.
C7_Witness ==
    /\ FlatOver("ParallelPlanner")
    /\ Len(plan.planners) = 3
    /\ ChildLen(1) = 2
    /\ Len(passes) = 1
    /\ Len(passes[1]) = 3
    /\ passes[1][2].exc = ""
    /\ passes[1][3].exc = "StopIteration"

\* The children of the root expression construct, and their lengths.
ChildrenConstruct == \A k \in 1..Len(plan.planners) : New(plan.planners[k]) # <<>>

ExprLen(k) == len(New(plan.planners[k])[1])

LengthMismatch ==
    /\ plan.kind = "ParallelPlanner"
    /\ plan.planners # <<>>
    /\ ChildrenConstruct
    /\ \E k \in 1..Len(plan.planners) : ExprLen(k) # ExprLen(1)

\* No object exists, nothing was begun or advanced, the store is as it
\* was, and the constructor, once called, raised ValueError.
Rejected ==
    /\ pc # "ready"
    /\ planner = <<>>
    /\ passes = <<>>
    /\ settings = DefaultSettings
    /\ pc = "failed" => last.exc = "ValueError"

\* C8: a ParallelPlanner whose children do not all have the same length
\* is rejected by its constructor.
C8_ParallelMismatch == LengthMismatch => Rejected

\* C8 witness: the constructor was called on children of lengths 1 and 2.
C8_Witness ==
    /\ LengthMismatch
    /\ ExprLen(1) = 1
    /\ ExprLen(2) = 2
    /\ pc = "failed"

\* C9 (as claimed): a CombinatorPlanner with a child of length 0 is
\* rejected by its constructor, so it never writes a setting.
C9_ZeroLengthChild ==
    ( /\ plan.kind = "CombinatorPlanner"
      /\ plan.planners # <<>>
      /\ ChildrenConstruct
      /\ \E k \in 1..Len(plan.planners) : ExprLen(k) = 0 )
    => Rejected

\* C10: a SequencePlanner, ParallelPlanner or CombinatorPlanner over an
\* empty list of children is rejected by its constructor.
C10_EmptyChildList ==
    (plan.kind \in Composites /\ plan.planners = <<>>) => Rejected

\* C10 witness: the constructor of an empty SequencePlanner was called.
C10_Witness ==
    /\ plan.kind = "SequencePlanner"
    /\ plan.planners = <<>>
    /\ pc = "failed"


\* The paths of the nodes of an expression.
RECURSIVE PathsOf(_)
PathsOf(e) ==
    {<<>>} \cup UNION { { <<k>> \o q : q \in PathsOf(e.planners[k]) } :
                        k \in 1..Len(e.planners) }

\* The leaves target pairwise distinct settings, no leaf lists a value
\* twice, and no two nodes share a basename.
WellKeyed(e) ==
    /\ \A a \in PathsOf(e), b \in PathsOf(e) :
           a # b =>
             /\ (At(e, a).kind = "Planner" /\ At(e, b).kind = "Planner")
                    => At(e, a).setting_name # At(e, b).setting_name
             /\ At(e, a).runs_basename # ""
                    => At(e, a).runs_basename # At(e, b).runs_basename
    /\ \A a \in PathsOf(e) :
           LET v == At(e, a).setting_values
           IN  \A i \in 1..Len(v), j \in 1..Len(v) : i # j => v[i] # v[j]

\* C11 (as claimed): for a tree with pairwise distinct setting names,
\* duplicate-free value lists and pairwise distinct basenames, no two
\* successful advances of one pass, up to its end-of-sequence, return the
\* same name.
C11_UniqueNames ==
    (pc = "ready" /\ WellKeyed(plan)) =>
        \A q \in 1..Len(passes) :
            LET u == UpToStop(passes[q])
            IN  \A i \in 1..Len(u), j \in 1..Len(u) :
                    (i < j /\ u[i].exc = "" /\ u[j].exc = "") => u[i].name # u[j].name

\* C16 (as claimed): a root constructed with a basename over non-empty
\* leaves and iterated once from its first begin: the k-th name it
\* produces is the basename, "-" and k zero-padded to three digits, for
\* k = 1 .. length().
C16_BasenameNumbering ==
    ( /\ pc = "ready"
      /\ plan.runs_basename # ""
      /\ AllLeavesNonEmpty(plan)
      /\ Len(passes) = 1 ) =>
        LET u == UpToStop(passes[1])
        IN  \A k \in 1..Len(u) :
                (k <= len(planner[1]) /\ u[k].exc = "")
                => u[k].name = << <<plan.runs_basename, "-">> \o Pad3(k) >>

\* The successful advances of the root since construction, as (pass,
\* advance) pairs.
Successes ==
    UNION { { <<q, k>> : k \in { i \in 1..Len(passes[q]) : passes[q][i].exc = "" } } :
            q \in 1..Len(passes) }

\* The writes made by the leaf at a path since construction, as (pass,
\* advance, write) triples.
WritesBy(a) ==
    UNION { UNION { { <<q, k, w>> :
                        w \in { i \in 1..Len(passes[q][k].writes) :
                                    passes[q][k].writes[i].by = a } } :
                    k \in 1..Len(passes[q]) } :
            q \in 1..Len(passes) }

RECURSIVE HasSequence(_)
HasSequence(e) ==
    \/ e.kind = "SequencePlanner"
    \/ \E k \in 1..Len(e.planners) : HasSequence(e.planners[k])

\* C17 (as claimed): the counter of a node equals the number of its
\* successful advances since construction.  For the root these are the
\* advances that returned a name; for a leaf of a tree without a
\* SequencePlanner (no write is a reset) they are the writes the leaf made.
C17_CounterCountsSuccesses ==
    pc = "ready" =>
        /\ planner[1].num_count = Cardinality(Successes)
        /\ ~ HasSequence(plan) =>
               \A a \in PathsOf(plan) :
                   At(plan, a).kind = "Planner"
                   => At(planner[1], a).num_count = Cardinality(WritesBy(a))

\* A write of a value that fails an assertion of validate.
Rejects(w) == ~ Asserted([DefaultSettings EXCEPT ![w.name] = w.value])

\* C14: in an advance of a ParallelPlanner or CombinatorPlanner, a write
\* that the store rejects is the last write of that advance (no leaf later
\* in child order is written) and the advance ends with the store's
\* AssertionError.
C14_RejectAborts ==
    (pc = "ready" /\ plan.kind \in {"ParallelPlanner", "CombinatorPlanner"}) =>
        \A q \in 1..Len(passes) : \A k \in 1..Len(passes[q]) :
            LET ev == passes[q][k]
            IN  \A i \in 1..Len(ev.writes) :
                    Rejects(ev.writes[i])
                    => /\ ev.exc = "AssertionError"
                       /\ i = Len(ev.writes)
                       /\ \A j \in 1..Len(ev.writes) :
                              Head(ev.writes[j].by) <= Head(ev.writes[i].by)

\* C14 witness: the second of three leaves in parallel wrote a rejected
\* value after the first leaf had written.
C14_Witness ==
    /\ plan.kind = "ParallelPlanner"
    /\ Len(plan.planners) = 3
    /\ last.op = "advance"
    /\ last.exc = "AssertionError"
    /\ Len(last.writes) = 2
    /\ Rejects(last.writes[2])
    /\ last.writes[2].by = <<2>>

\* C15 (as claimed): an advance of a ParallelPlanner that is reported as
\* the end-of-sequence of a pass advanced no child successfully: the
\* end-of-sequence was raised by the first child, so no child after the
\* first was touched in that step.
C15_ParallelStop ==
    [][ ( /\ pc = "ready"
          /\ plan.kind = "ParallelPlanner"
          /\ passes # <<>>
          /\ Stops(passes[Len(passes)]) = {}
          /\ last'.op = "advance"
          /\ last'.exc = "StopIteration" )
        => \A k \in 2..Len(plan.planners) :
               planner'[1].planners[k] = planner[1].planners[k] ]_vars

\* The leaves of an expression in depth-first order, as paths.
RECURSIVE LeafPaths(_)
LeafPaths(e) ==
    IF e.kind = "Planner" THEN << <<>> >>
    ELSE LET RECURSIVE Cat(_)
             Cat(k) == IF k > Len(e.planners) THEN <<>>
                       ELSE [i \in 1..Len(LeafPaths(e.planners[k])) |->
                                <<k>> \o LeafPaths(e.planners[k])[i]] \o Cat(k + 1)
         IN  Cat(1)

\* The keys a sub-expression writes.
KeysUnder(e) == { At(e, LeafPaths(e)[i]).setting_name : i \in 1..Len(LeafPaths(e)) }

\* C19 (as claimed): in the first pass of a SequencePlanner, once child j
\* has produced a name (child j was begun, every child before it is over),
\* every setting written by a child before j holds the value it had before
\* that child was begun, which is its value at construction.
C19_SequenceResets ==
    ( /\ pc = "ready"
      /\ plan.kind = "SequencePlanner"
      /\ AllLeavesNonEmpty(plan)
      /\ Len(passes) = 1
      /\ last.op = "advance"
      /\ last.exc = ""
      /\ Stops(passes[1]) = {} )
    => \A k \in 1..(Producer(last) - 1) :
           \A key \in KeysUnder(plan.planners[k]) :
               settings[key] = DefaultSettings[key]

\* The leaves that wrote during an advance.
Writers(ev) == { ev.writes[i].by : i \in 1..Len(ev.writes) }

\* C20 (as claimed): in every successful advance of the root exactly one
\* leaf writes to the store.
C20_OneWriter ==
    pc = "ready" =>
        \A q \in 1..Len(passes) : \A k \in 1..Len(passes[q]) :
            passes[q][k].exc = "" => Cardinality(Writers(passes[q][k])) = 1

\* C20 (amended): in every successful advance of the root at least one
\* leaf writes to the store, and when the root is a leaf exactly one write
\* is made.
C20_SomeWriter ==
    pc = "ready" =>
        \A q \in 1..Len(passes) : \A k \in 1..Len(passes[q]) :
            passes[q][k].exc = ""
            => /\ Cardinality(Writers(passes[q][k])) >= 1
               /\ plan.kind = "Planner" => Len(passes[q][k].writes) = 1

\* C20 witness: a successful advance of a ParallelPlanner in which three
\* leaves wrote.
C20_Witness ==
    /\ plan.kind = "ParallelPlanner"
    /\ last.op = "advance"
    /\ last.exc = ""
    /\ Cardinality(Writers(last)) = 3

RECURSIVE NoBasename(_)
NoBasename(e) ==
    /\ e.runs_basename = ""
    /\ \A k \in 1..Len(e.planners) : NoBasename(e.planners[k])

\* The writes of the advances of a pass, in order.
RECURSIVE History(_)
History(pass) == IF pass = <<>> THEN <<>> ELSE Head(pass).writes \o History(Tail(pass))

\* The child of the node at a path under which the latest write below that
\* node was made.
CurrentChild(path, h) ==
    LET below == { i \in 1..Len(h) :
                       /\ Len(h[i].by) > Len(path)
                       /\ SubSeq(h[i].by, 1, Len(path)) = path }
        latest == CHOOSE i \in below : \A j \in below : j <= i
    IN  h[latest].by[Len(path) + 1]

\* The name composed from the store: a leaf contributes its key, "-" and
\* the value the store holds for it; a ParallelPlanner and a
\* CombinatorPlanner the "_"-join of their children's fragments in child
\* order; a SequencePlanner the fragment of the child that wrote last.
RECURSIVE ComposedName(_, _, _)
ComposedName(e, path, h) ==
    CASE e.kind = "Planner" ->
             <<e.setting_name, "-">> \o StrValue(e.setting_name, settings[e.setting_name])
      [] e.kind = "SequencePlanner" ->
             LET c == CurrentChild(path, h)
             IN  ComposedName(e.planners[c], Append(path, c), h)
      [] OTHER ->
             Join([k \in 1..Len(e.planners) |->
                      ComposedName(e.planners[k], Append(path, k), h)])

\* The six names of CombinatorPlanner([Planner(a, [0.1, 0.01]),
\* Planner(b, [1, 5, 10])]), a and b being the two settings.
ExampleNames(a, b) ==
    << <<a, "-", "0", ".", "1", "_", b, "-", "1">>,
       <<a, "-", "0", ".", "0", "1", "_", b, "-", "1">>,
       <<a, "-", "0", ".", "1", "_", b, "-", "5">>,
       <<a, "-", "0", ".", "0", "1", "_", b, "-", "5">>,
       <<a, "-", "0", ".", "1", "_", b, "-", "1", "0">>,
       <<a, "-", "0", ".", "0", "1", "_", b, "-", "1", "0">> >>

\* C18: without basenames, the name returned by a successful advance of the
\* first pass is composed of the fragments key-value of the leaves as laid
\* down for each class; and the planner over the values 0.1, 0.01 and
\* 1, 5, 10 returns the six names of the example, in that order, and then
\* signals end-of-sequence.
C18_NameComposition ==
    /\ ( /\ pc = "ready"
         /\ NoBasename(plan)
         /\ Len(passes) = 1
         /\ last.op = "advance"
         /\ last.exc = ""
         /\ Stops(passes[1]) = {} )
       => last.name = <<ComposedName(plan, <<>>, History(passes[1]))>>
    /\ (plan \in ExamplePlans /\ Len(passes) = 1)
       => \A k \in 1..Len(passes[1]) :
              /\ k <= 6 =>
                    /\ passes[1][k].exc = ""
                    /\ passes[1][k].name =
                           <<ExampleNames(plan.planners[1].setting_name,
                                          plan.planners[2].setting_name)[k]>>
              /\ k = 7 => passes[1][k].exc = "StopIteration"

\* C18 witness: the example was iterated to its end.
C18_Witness ==
    /\ plan \in ExamplePlans
    /\ Len(passes) = 1
    /\ Len(passes[1]) = 7
    /\ passes[1][6].exc = ""
    /\ last.exc = "StopIteration"

(* ------------------------------ the driver ----------------------------- *)

\* Largest number of runs of one sweep whose error start_run swallows.
MaxRunErrors == 1

\* What can happen in the body of a run: nothing; an exception before
\* train_dataset, test_dataset and network are all bound ("early") or
\* after ("late"); a KeyboardInterrupt.
Faults == {"none", "early", "late", "interrupt"}

\* start_run: the exception its caller sees, "" when it returns.
\* `except Exception` logs the error and does not raise it again;
\* KeyboardInterrupt is raised again; the finally clause deletes the three
\* local names, an UnboundLocalError when one of them was never bound.
start_run(fault) ==
    CASE fault = "none" -> ""
      [] fault = "late" -> ""
      [] fault = "early" -> "UnboundLocalError"
      [] fault = "interrupt" -> "KeyboardInterrupt"

\* How many times start_run executes clean_up.  clean_up() is the second
\* statement of the finally clause, after
\* `del train_dataset, test_dataset, network`: when the body raised before
\* the three names were bound the del raises UnboundLocalError and
\* clean_up is not reached.
clean_ups(fault) == IF fault = "early" THEN 0 ELSE 1

\* The planners start_planner is given: a leaf or a composite over one or
\* two leaves, the example, and the composites over two leaves in which
\* one value is 0; every leaf with at least one value.
DriverPlans ==
    { e \in FlatPlans \cup ExamplePlans \cup RejectPlans :
          /\ Len(e.planners) <= 2
          /\ New(e) # <<>>
          /\ AllLeavesNonEmpty(e) }

Step(op, exc, name) ==
    [op |-> op, exc |-> exc, name |-> name, writes |-> <<>>, reads |-> <<>>,
     late |-> <<>>]

DriverInit ==
    /\ plan \in DriverPlans
    /\ planner = New(plan)
    /\ settings = DefaultSettings
    /\ pc = "import"
    /\ last = Step("none", "", <<>>)
    /\ passes = <<>>
    /\ runs = <<>>
    /\ main \in {"unbound", "start_run"}
    /\ asserts \in BOOLEAN
    /\ logger = SexyLogger

\* runs_planner.py line 1: from main import main
Import ==
    /\ pc = "import"
    /\ pc' = IF main = "unbound" THEN "crashed" ELSE "start"
    /\ last' = Step("import", IF main = "unbound" THEN "ImportError" ELSE "", <<>>)
    /\ UNCHANGED <<plan, planner, settings, passes, runs, main, asserts, logger>>

\* start_planner, lines 14-18: the three settings overrides (each one
\* validated by Settings.__setattr__) and the log of len(runs_planner).
StartPlanner ==
    /\ pc = "start"
    /\ LET w1 == SetAttr(NewEnv(settings), "run_name", <<>>, <<>>)
           w2 == SetAttr(w1.env, "visual_progress_bar", FALSE, <<>>)
           w3 == SetAttr(w2.env, "show_images", FALSE, <<>>)
           w == IF w1.exc # "" THEN w1 ELSE IF w2.exc # "" THEN w2 ELSE w3
       IN  /\ settings' = w.env.settings
           /\ pc' = IF w.exc # "" THEN "crashed" ELSE "for"
           /\ last' = Step("start_planner", w.exc, <<>>)
    /\ UNCHANGED <<plan, planner, passes, runs, main, asserts, logger>>

\* line 21, entering the loop: iter(runs_planner)
ForIter ==
    /\ pc = "for"
    /\ LET r == iter(planner[1], <<>>, NewEnv(settings))
       IN  /\ planner' = <<r.p>>
           /\ settings' = r.env.settings
           /\ last' = Call("begin", r)
           /\ passes' = Append(passes, <<>>)
           /\ pc' = IF r.exc = "" THEN "next" ELSE "crashed"
    /\ UNCHANGED <<plan, runs, main, asserts, logger>>

\* line 21, each turn of the loop: next() of the planner; StopIteration
\* ends the loop.
ForNext ==
    /\ pc = "next"
    /\ LET r == next(planner[1], <<>>, NewEnv(settings))
       IN  /\ planner' = <<r.p>>
           /\ settings' = r.env.settings
           /\ last' = Call("advance", r)
           /\ passes' = [passes EXCEPT ![Len(passes)] =
                            Append(@, [exc |-> r.exc, name |-> r.name,
                                       writes |-> r.env.writes])]
           /\ pc' = CASE r.exc = "" -> "name"
                      [] r.exc = "StopIteration" -> "done"
                      [] OTHER -> "crashed"
    /\ UNCHANGED <<plan, runs, main, asserts, logger>>

\* line 24: settings.run_name = run_name
SetRunName ==
    /\ pc = "name"
    /\ LET w == SetAttr(NewEnv(settings), "run_name", last.name, <<>>)
       IN  /\ settings' = w.env.settings
           /\ pc' = IF w.exc # "" THEN "crashed" ELSE "main"
           /\ last' = Step("set_run_name", w.exc, last.name)
    /\ UNCHANGED <<plan, planner, passes, runs, main, asserts, logger>>

\* line 26: main(), a synchronous call; what it raises is not caught.
Main ==
    /\ pc = "main"
    /\ \E fault \in Faults :
           /\ fault = "late" =>
                  Cardinality({ i \in 1..Len(runs) : runs[i].fault = "late" }) < MaxRunErrors
           /\ LET exc == start_run(fault)
              IN  /\ runs' = Append(runs, [name |-> settings.run_name,
                                           fault |-> fault, exc |-> exc,
                                           clean_ups |-> clean_ups(fault)])
                  /\ pc' = IF exc # "" THEN "crashed" ELSE "next"
                  /\ last' = Step("main", exc, <<>>)
    /\ UNCHANGED <<plan, planner, settings, passes, main, asserts, logger>>

DriverNext == Import \/ StartPlanner \/ ForIter \/ ForNext \/ SetRunName \/ Main

DriverSpec == DriverInit /\ [][DriverNext]_vars

\* The names the planner has returned to the loop of start_planner.
RECURSIVE NamesOf(_)
NamesOf(pass) ==
    IF pass = <<>> THEN <<>>
    ELSE IF Head(pass).exc = "" THEN <<Head(pass).name>> \o NamesOf(Tail(pass))
    ELSE NamesOf(Tail(pass))

Yielded == IF passes = <<>> THEN <<>> ELSE NamesOf(passes[1])

\* C12 (as claimed): start_planner, given a well-formed planner, begins it
\* once and runs the entry point once per name, in order, with
\* settings.run_name holding that name: the runs started are the names
\* returned so far, except the latest while it is being assigned; a name
\* is outstanding only between its advance and its run; the driver stops
\* only at the planner's end-of-sequence, every name run, or on the error
\* of a run.
C12_DriverRuns ==
    /\ Len(passes) <= 1
    /\ Len(runs) <= Len(Yielded)
    /\ \A i \in 1..Len(runs) : runs[i].name = Yielded[i]
    /\ Len(Yielded) - Len(runs) = (IF pc \in {"name", "main"} THEN 1 ELSE 0)
    /\ pc = "done" => (last.exc = "StopIteration" /\ Len(runs) = Len(Yielded))
    /\ pc = "crashed" => (runs # <<>> /\ runs[Len(runs)].exc # "" /\ last.op = "main")

\* C13 (as claimed): a run in which an error occurred is the last run of
\* the sweep, and the driver has stopped with that error.
C13_RunErrorHalts ==
    \A i \in 1..Len(runs) :
        runs[i].fault # "none" => (i = Len(runs) /\ pc = "crashed" /\ last.op = "main")

\* A leaf object whose values iterator has run past its last value.
Exhausted(p) ==
    /\ p.kind = "Planner"
    /\ p.values_iterator = <<Len(p.setting_values)>>

\* C21: an advance of an exhausted leaf, wherever the leaf stands in the
\* tree, signals end-of-sequence and leaves the store as it was, no setting
\* written; and for a leaf that is the root, every advance after its last
\* value signalled end-of-sequence and wrote nothing.
C21_ExhaustedLeaf ==
    pc = "ready" =>
        /\ \A a \in PathsOf(plan) :
               Exhausted(At(planner[1], a)) =>
                   LET r == next(At(planner[1], a), a, NewEnv(settings))
                   IN  /\ r.exc = "StopIteration"
                       /\ r.env.settings = settings
                       /\ r.env.writes = <<>>
        /\ plan.kind = "Planner" =>
               \A q \in 1..Len(passes) : \A i \in 1..Len(passes[q]) :
                   i > Len(plan.setting_values) =>
                       /\ passes[q][i].exc = "StopIteration"
                       /\ passes[q][i].writes = <<>>

\* C21 witness: a leaf of two values was advanced twice after its last
\* value.
C21_Witness ==
    /\ pc = "ready"
    /\ plan.kind = "Planner"
    /\ Len(plan.setting_values) = 2
    /\ Exhausted(planner[1])
    /\ Len(passes) = 1
    /\ Len(passes[1]) = 4
    /\ last.op = "advance"
    /\ last.exc = "StopIteration"

\* The whole settings object passes validate: what its assert statements
\* state, whether or not the interpreter executes them.
Valid(s) == s.run_name # <<>> /\ Asserted(s)

\* C22 (as claimed): whenever an assignment to a setting has returned (the
\* overrides of start_planner, the writes of an advance of the planner,
\* the assignment of the run name) the settings object passes validate,
\* and so do the settings every run is started with.
C22_ValidatedRuns ==
    /\ (last.op \in {"start_planner", "advance", "set_run_name"} /\ last.exc = "")
           => Valid(settings)
    /\ pc = "main" => Valid(settings)

\* C23: an advance of the root in which a leaf wrote a value the store
\* rejects ends with the store's AssertionError and returns no name; the
\* rejected write is the last write of the advance and the only rejected
\* one, the store still holds the rejected value and the leaf still stands
\* at it (it was neither reset nor begun again), and every SequencePlanner
\* above the leaf still has the child holding the leaf as its current
\* child.
C23_ErrorNotExhaustion ==
    ( /\ pc = "ready"
      /\ last.op = "advance"
      /\ \E i \in 1..Len(last.writes) : Rejects(last.writes[i]) )
    => LET n == Len(last.writes)
           w == last.writes[n]
           leaf == At(planner[1], w.by)
       IN  /\ last.exc = "AssertionError"
           /\ last.name = <<>>
           /\ \A i \in 1..n : Rejects(last.writes[i]) => i = n
           /\ settings[w.name] = w.value
           /\ leaf.values_iterator # <<>>
           /\ leaf.values_iterator[1] >= 1
           /\ leaf.setting_values[leaf.values_iterator[1]] = w.value
           /\ \A k \in 0..(Len(w.by) - 1) :
                  LET node == At(planner[1], SubSeq(w.by, 1, k))
                  IN  node.kind = "SequencePlanner"
                      => node.current_planner_iterator = <<w.by[k + 1]>>

\* C23 witness: a CombinatorPlanner inside a SequencePlanner carried from
\* its first leaf into its second, whose write was rejected.
C23_Witness ==
    /\ pc = "ready"
    /\ Len(passes) = 1
    /\ Len(passes[1]) = 3
    /\ plan.kind = "SequencePlanner"
    /\ plan.planners[1].kind = "CombinatorPlanner"
    /\ last.op = "advance"
    /\ last.exc = "AssertionError"
    /\ Len(last.writes) = 2
    /\ last.writes[1].by = <<1, 1>>
    /\ last.writes[2].by = <<1, 2>>
    /\ Rejects(last.writes[2])

\* The advances made before the last operation: every recorded advance,
\* but the latest one when the last operation is that advance.
PriorEvents ==
    { <<q, k>> \in UNION { { <<q2, k2>> : k2 \in 1..Len(passes[q2]) } : q2 \in 1..Len(passes) } :
          ~ (last.op = "advance" /\ q = Len(passes) /\ k = Len(passes[q])) }

\* The planner wrote the setting of a read before the read was made: in an
\* earlier operation, or earlier in the same operation.
ReadBack(rd) ==
    \/ \E j \in 1..rd.at : last.writes[j].name = rd.name
    \/ \E e \in PriorEvents :
           \E j \in 1..Len(passes[e[1]][e[2]].writes) :
               passes[e[1]][e[2]].writes[j].name = rd.name

\* C24 (as claimed): no begin and no advance of the root (the restoration
\* of original values happens inside the advance of a SequencePlanner)
\* reads from the store a setting the planner has written before.
C24_NoReadBack ==
    pc = "ready" => \A i \in 1..Len(last.reads) : ~ ReadBack(last.reads[i])

\* The client kept the rule itself: the root was never advanced again after
\* it had signalled end-of-sequence, only begun again.
WellDriven ==
    \A q \in 1..Len(passes) : \A k \in Stops(passes[q]) : k = Len(passes[q])

\* C25: as long as the client does not advance the root after its
\* end-of-sequence, no begin and no advance of the root makes a composite
\* call __next__ of a child that has raised StopIteration and was not
\* begun again since.
C25_NoAdvanceAfterStop ==
    (pc = "ready" /\ WellDriven) => last.late = <<>>

\* C25 witness: in the second pass of a SequencePlanner over a
\* CombinatorPlanner and a leaf, after a carry inside the CombinatorPlanner,
\* the SequencePlanner handed over to the leaf.
C25_Witness ==
    /\ pc = "ready"
    /\ WellDriven
    /\ plan.kind = "SequencePlanner"
    /\ Len(plan.planners) = 2
    /\ plan.planners[1].kind = "CombinatorPlanner"
    /\ Len(passes) = 2
    /\ last.op = "advance"
    /\ last.exc = ""
    /\ Producer(last) = 2
    /\ \E k \in 1..Len(passes[2]) : Cardinality(Writers(passes[2][k])) >= 2
    /\ last.late = <<>>

\* The fragment a leaf contributes for the value the store holds.
StoreFragment(e) ==
    <<e.setting_name, "-">> \o StrValue(e.setting_name, settings[e.setting_name])

C27_FirstAdvance ==
    ( /\ pc = "ready"
      /\ plan.kind = "CombinatorPlanner"
      /\ AllLeavesNonEmpty(plan)
      /\ Accepted(plan)
      /\ WellDriven
      /\ passes # <<>>
      /\ Len(passes[Len(passes)]) = 1 )
    => /\ last.exc = ""
       /\ \A f \in FirstEntry(plan) :
              /\ settings[f.name] = f.value
              /\ Cardinality({ i \in 1..Len(last.writes) : last.writes[i].name = f.name }) = 1

\* C28 (as claimed): in every pass, every advance of the root made after
\* its first end-of-sequence signals end-of-sequence again, returns no name
\* and writes nothing.
C28_StableExhaustion ==
    pc = "ready" =>
        \A q \in 1..Len(passes) : \A k \in 1..Len(passes[q]) :
            (\E j \in Stops(passes[q]) : j < k)
            => /\ passes[q][k].exc = "StopIteration"
               /\ passes[q][k].name = <<>>
               /\ passes[q][k].writes = <<>>

(* ------------------------------ termination ---------------------------- *)

\* A well-formed tree: its constructor accepts it, every leaf has a value,
\* and the store accepts every value.
WellFormed(e) == New(e) # <<>> /\ AllLeavesNonEmpty(e) /\ Accepted(e)

\* The sweeps of the well-formed trees without basenames (a basename
\* changes the name an advance returns, not whether it returns).
SweepInit ==
    /\ Init
    /\ WellFormed(plan)
    /\ NoBasename(plan)

\* The guard of Advance: next(planner) returns or raises in every state, so
\* this is ENABLED <<Advance>>_vars.
CanAdvance ==
    /\ pc = "ready"
    /\ ~ Crashed
    /\ passes # <<>>
    /\ LET pass == passes[Len(passes)]
       IN  \A k \in Stops(pass) : Len(pass) - k < MaxAfterStop

\* The loop `for run_name in runs_planner` calls next() until it raises:
\* an advance that stays possible is eventually made.  This is weak
\* fairness of Advance with its ENABLED written as the guard.
SweepFair == []<>(~ CanAdvance) \/ []<><<Advance>>_vars

\* The script evaluates the constructor expression it wrote, and its loop
\* keeps advancing; when the client begins the planner is its own choice.
SweepSpec == SweepInit /\ [][Next]_vars /\ WF_vars(Construct) /\ SweepFair

\* C29: every pass of a well-formed tree that was begun, the first one and
\* the one after a restart, reaches end-of-sequence: whenever a pass is
\* under way, eventually the pass then current has signalled
\* end-of-sequence (a pass is begun only after the one before it has).
C29_SweepTerminates ==
    (passes # <<>>) ~> (passes # <<>> /\ Stops(passes[Len(passes)]) # {})

\* C29 witness: the second pass of a three-level tree (a SequencePlanner
\* over a composite whose first child is a composite) ran to
\* end-of-sequence.
C29_Witness ==
    /\ plan \in DeepPlans
    /\ Len(passes) = 2
    /\ Complete(passes[2])
    /\ Produced(passes[2]) >= 3

\* A SequencePlanner whose children are leaves or ParallelPlanners of
\* leaves.
SequenceOfLeaves(e) ==
    /\ e.kind = "SequencePlanner"
    /\ \A k \in 1..Len(e.planners) :
           \/ e.planners[k].kind = "Planner"
           \/ /\ e.planners[k].kind = "ParallelPlanner"
              /\ \A j \in 1..Len(e.planners[k].planners) :
                     e.planners[k].planners[j].kind = "Planner"

\* C30: when a SequencePlanner over leaves or ParallelPlanners of leaves
\* signals the end-of-sequence of a pass, the store is as it was when the
\* pass was begun, the settings of the last child included.  The store is
\* DefaultSettings when the first pass is begun, so, the root never
\* advanced after an end-of-sequence, it is DefaultSettings at the end of
\* every pass.
C30_SequenceRestores ==
    ( /\ pc = "ready"
      /\ SequenceOfLeaves(plan)
      /\ WellDriven
      /\ last.op = "advance"
      /\ last.exc = "StopIteration" )
    => settings = DefaultSettings

\* C30 witness: the second pass of a SequencePlanner over a leaf and a
\* ParallelPlanner of two leaves, each of two values, has ended; the last
\* advance restored both leaves of the ParallelPlanner.
C30_Witness ==
    /\ pc = "ready"
    /\ SequenceOfLeaves(plan)
    /\ WellDriven
    /\ Len(plan.planners) = 2
    /\ plan.planners[2].kind = "ParallelPlanner"
    /\ Len(passes) = 2
    /\ Len(passes[2]) = 5
    /\ last.op = "advance"
    /\ last.exc = "StopIteration"
    /\ Len(last.writes) = 2

(* ----------------------- the end of a combinator sweep ------------------ *)

\* The latest advance is the first of its pass to signal end-of-sequence.
EndOfSweep ==
    /\ pc = "ready"
    /\ passes # <<>>
    /\ Stops(passes[Len(passes)]) = {Len(passes[Len(passes)])}

\* C31: the advance on which a CombinatorPlanner over n >= 2 non-empty
\* leaves (values the store accepts) signals end-of-sequence has side
\* effects: during it every child but the last is begun again (it reads
\* its setting) and writes its first value, so that afterwards the store
\* holds the first value of every child but the last and the last value
\* of the last child.
C31_EndOfSweepStore ==
    ( /\ EndOfSweep
      /\ FlatOver("CombinatorPlanner")
      /\ Len(plan.planners) >= 2
      /\ \A i \in 1..Len(plan.planners) : ChildLen(i) >= 1
      /\ Accepted(plan) )
    => LET n == Len(plan.planners)
       IN  /\ \A i \in 1..(n - 1) :
                 LET c == plan.planners[i]
                 IN  /\ \E k \in 1..Len(last.reads) :
                            last.reads[k].name = c.setting_name /\ last.reads[k].by = <<i>>
                     /\ \E k \in 1..Len(last.writes) :
                            last.writes[k] = [name |-> c.setting_name,
                                              value |-> c.setting_values[1], by |-> <<i>>]
                     /\ settings[c.setting_name] = c.setting_values[1]
           /\ \A k \in 1..Len(last.writes) : last.writes[k].by # <<n>>
           /\ settings[plan.planners[n].setting_name]
                  = plan.planners[n].setting_values[ChildLen(n)]

\* C31 witness: three leaves of two values each at the end of the first
\* pass; the last combination run was (last, last, last), the store holds
\* (first, first, last).
C31_Witness ==
    /\ EndOfSweep
    /\ FlatOver("CombinatorPlanner")
    /\ Len(plan.planners) = 3
    /\ \A i \in 1..3 : ChildLen(i) = 2
    /\ Len(passes) = 1
    /\ Len(last.writes) = 2
    /\ \A i \in 1..2 : settings[plan.planners[i].setting_name] = plan.planners[i].setting_values[1]
    /\ settings[plan.planners[3].setting_name] = plan.planners[3].setting_values[2]

(* ------------------------------ failed writes --------------------------- *)

\* C32: a write that validate rejects is not rolled back.  After an
\* advance that ended in the AssertionError of validate, the store still
\* holds the rejected value (the store does not pass the assertions), and
\* the values written earlier in the same advance are still in it.
C32_NoRollback ==
    (pc = "ready" /\ last.op = "advance" /\ last.exc = "AssertionError")
    => /\ last.writes # <<>>
       /\ ~ Asserted(settings)
       /\ LET w == last.writes[Len(last.writes)]
          IN  /\ settings[w.name] = w.value
              /\ ~ Asserted([DefaultSettings EXCEPT ![w.name] = w.value])
       /\ \A k \in 1..Len(last.writes) :
              (\A j \in (k + 1)..Len(last.writes) : last.writes[j].name # last.writes[k].name)
              => settings[last.writes[k].name] = last.writes[k].value

\* C32 witness: an advance that wrote an accepted value to one setting and
\* then a rejected value to another; both are in the store afterwards.
C32_Witness ==
    /\ pc = "ready"
    /\ last.op = "advance"
    /\ last.exc = "AssertionError"
    /\ Len(last.writes) = 2
    /\ last.writes[1].name # last.writes[2].name
    /\ settings[last.writes[1].name] = last.writes[1].value
    /\ settings[last.writes[1].name] # DefaultSettings[last.writes[1].name]
    /\ settings[last.writes[2].name] = 0

(* --------------------- the store and its set of names ------------------- *)

\* A name that is no attribute of the Settings class.
UnknownName == "dropout"

\* A leaf over the unknown name: alone, and as the first or the second
\* child of a composite whose other child is a leaf over a setting.
UnknownPlans ==
    { LeafExpr(UnknownName, Values(1, n)) : n \in 1..MaxLen }
    \cup
    UNION { { CompositeExpr(kind, <<LeafExpr(UnknownName, Values(1, n)), Leaf(2, m)>>),
              CompositeExpr(kind, <<Leaf(1, m), LeafExpr(UnknownName, Values(2, n))>>) } :
            kind \in Composites, n \in 1..MaxLen, m \in 1..MaxLen }

\* Two leaves over the same setting (the values 2.. and 4..) as the two
\* children of a ParallelPlanner or a CombinatorPlanner, with a leaf over
\* another setting between them, or the first of them inside a composite
\* of its own.
OverlapPlans ==
    UNION { { CompositeExpr(kind, <<LeafExpr(SettingNames[1], Values(1, n)),
                                    LeafExpr(SettingNames[1], Values(3, m))>>),
              CompositeExpr(kind, <<LeafExpr(SettingNames[1], Values(1, n)),
                                    Leaf(2, n),
                                    LeafExpr(SettingNames[1], Values(3, m))>>),
              CompositeExpr(kind, <<CompositeExpr(kind, <<LeafExpr(SettingNames[1], Values(1, n)),
                                                          Leaf(2, n)>>),
                                    LeafExpr(SettingNames[1], Values(3, m))>>) } :
            kind \in {"ParallelPlanner", "CombinatorPlanner"},
            n \in 1..MaxLen, m \in 1..MaxLen }

StorePlans == UnknownPlans \cup OverlapPlans

\* The names and the values client code assigns in this model: a setting
\* and the unknown name; a value validate accepts and one it rejects for
\* nb_epoch.
ClientNames == {SettingNames[1], UnknownName}

ClientValues == {0, 7}

\* Settings.__delattr__: raises, whatever the name.
DelAttr(env, name) == [env |-> env, exc |-> "AttributeError"]

StoreInit ==
    /\ plan \in StorePlans
    /\ planner = <<>>
    /\ settings = DefaultSettings
    /\ pc = "new"
    /\ last = Step("none", "", <<>>)
    /\ passes = <<>>
    /\ runs = <<>>
    /\ main = "unbound"
    /\ asserts = TRUE
    /\ logger = SexyLogger

\* Client code: settings.<name> = value
ClientSet ==
    /\ pc = "ready"
    /\ ~ Crashed
    /\ \E name \in ClientNames, value \in ClientValues :
           LET w == SetAttr(NewEnv(settings), name, value, <<>>)
           IN  /\ settings' = w.env.settings
               /\ last' = [Step("setattr", w.exc, <<name>>) EXCEPT !.writes = w.env.writes]
    /\ UNCHANGED <<plan, planner, pc, passes, runs, main, asserts, logger>>

\* Client code: del settings.<name>
ClientDel ==
    /\ pc = "ready"
    /\ ~ Crashed
    /\ \E name \in ClientNames :
           LET w == DelAttr(NewEnv(settings), name)
           IN  /\ settings' = w.env.settings
               /\ last' = [Step("delattr", w.exc, <<name>>) EXCEPT !.writes = w.env.writes]
    /\ UNCHANGED <<plan, planner, pc, passes, runs, main, asserts, logger>>

StoreNext == Construct \/ Begin \/ Advance \/ ClientSet \/ ClientDel

StoreSpec == StoreInit /\ [][StoreNext]_vars

\* The paths of the leaves of an expression that target the unknown name.
UnknownLeaves(e) ==
    { q \in PathsOf(e) : At(e, q).kind = "Planner" /\ At(e, q).setting_name = UnknownName }

C34_NameOrStop ==
    (pc = "ready" /\ plan.kind = "CombinatorPlanner" /\ Len(plan.planners) >= 1)
    => /\ \A i \in 1..Len(passes) : \A k \in 1..Len(passes[i]) :
              passes[i][k].exc = ""
                  => (passes[i][k].name # <<>> /\ passes[i][k].name[1] # <<>>)
       /\ (WellDriven /\ AllLeavesNonEmpty(plan) /\ Accepted(plan))
              => \A i \in 1..Len(passes) : \A k \in 1..Len(passes[i]) :
                     passes[i][k].exc \in {"", "StopIteration"}

\* C34 witness: a CombinatorPlanner over a composite and a leaf whose
\* advance carried (the first child wrapped around, two children wrote)
\* and returned a name.
C34_Witness ==
    /\ pc = "ready"
    /\ plan.kind = "CombinatorPlanner"
    /\ Len(plan.planners) = 2
    /\ plan.planners[1].kind # "Planner"
    /\ Len(passes) = 1
    /\ Len(passes[1]) >= 2
    /\ last.op = "advance"
    /\ last.exc = ""
    /\ last.name # <<>>
    /\ \E k \in 1..Len(last.writes) : last.writes[k].by = <<2>>

(* ------------------------- leaves over the same key --------------------- *)

\* Child order of two paths: depth-first, left to right.
RECURSIVE Before(_, _)
Before(a, b) ==
    /\ a # <<>>
    /\ b # <<>>
    /\ \/ Head(a) < Head(b)
       \/ Head(a) = Head(b) /\ Before(Tail(a), Tail(b))

\* Two leaves of the plan that target the same setting, a before b.
Overlap(a, b) ==
    /\ a \in PathsOf(plan) /\ b \in PathsOf(plan)
    /\ At(plan, a).kind = "Planner" /\ At(plan, b).kind = "Planner"
    /\ At(plan, a).setting_name = At(plan, b).setting_name
    /\ Before(a, b)

\* The value a begun leaf object wrote last.
Current(p) == p.setting_values[p.values_iterator[1]]

\* The latest advance of a planner with overlapping leaves returned a name.
OverlapAdvanced ==
    /\ pc = "ready"
    /\ plan \in OverlapPlans
    /\ last.op = "advance"
    /\ last.exc = ""

\* Nothing but the end-of-sequence is raised by a planner with overlapping
\* leaves: the constructor accepts it when the lengths allow, and no begin
\* and no advance raises another exception.
NoOverlapError ==
    plan \in OverlapPlans =>
        /\ (plan.kind = "CombinatorPlanner" \/ ~ LengthMismatch) => pc # "failed"
        /\ last.op \in {"begin", "advance"} => last.exc \in {"", "StopIteration"}

C36_AlwaysCleansUp ==
    \A i \in 1..Len(runs) : runs[i].clean_ups = 1

(* --------------------------- the logger singleton ----------------------- *)

LoggerInit ==
    /\ plan = Leaf(1, 1)
    /\ planner = <<>>
    /\ settings = DefaultSettings
    /\ pc = "new"
    /\ last = Step("none", "", <<>>)
    /\ passes = <<>>
    /\ runs = <<>>
    /\ main = "unbound"
    /\ asserts = TRUE
    /\ logger = SexyLogger

\* logger.set_console_level(level)
SetConsoleLevel ==
    /\ \E level \in LevelNames :
           LET r == set_console_level(logger, level)
           IN  /\ logger' = r.logger
               /\ last' = Step("set_console_level", r.exc, <<level>>)
    /\ UNCHANGED <<plan, planner, settings, pc, passes, runs, main, asserts>>

\* logger.set_file_level(level)
SetFileLevel ==
    /\ \E level \in LevelNames :
           LET r == set_file_level(logger, level)
           IN  /\ logger' = r.logger
               /\ last' = Step("set_file_level", r.exc, <<level>>)
    /\ UNCHANGED <<plan, planner, settings, pc, passes, runs, main, asserts>>

\* logger.enable_log_file(file_path, file_log_level); the step records the
\* path it was called with.
EnableLogFile ==
    /\ \E file_path \in LogPaths, level \in LevelNames :
           LET r == enable_log_file(logger, file_path, level)
           IN  /\ logger' = r.logger
               /\ last' = Step("enable_log_file", r.exc, file_path)
    /\ UNCHANGED <<plan, planner, settings, pc, passes, runs, main, asserts>>

LoggerNext == SetConsoleLevel \/ SetFileLevel \/ EnableLogFile

LoggerSpec == LoggerInit /\ [][LoggerNext]_vars

\* The file handlers added to the logger.
FileHandlers(lg) == { k \in 1..Len(lg.handlers) : lg.handlers[k] # "console" }

\* C37: enable_log_file called while a file handler is set returns without
\* changing the logger (the handler, its file and its level are kept, no
\* handler is added), whatever the path and the level; and at every
\* moment the logger has at most one file handler.
C37_EnableIdempotent ==
    /\ [](Cardinality(FileHandlers(logger)) <= 1)
    /\ [][(last'.op = "enable_log_file" /\ logger.file_handler # <<>>)
              => (logger' = logger /\ last'.exc = "")]_vars

\* C37 witness: enable_log_file has returned from a call with a path
\* other than the one of the file handler in place, and the logger has
\* its console handler and that one file handler.
C37_Witness ==
    /\ last.op = "enable_log_file"
    /\ last.exc = ""
    /\ logger.file_handler # <<>>
    /\ last.name # <<logger.file_handler[1].path>>
    /\ logger.handlers = <<"console", logger.file_handler[1].path>>

\* C38 (as claimed): after any sequence of calls the global level is the
\* console handler's level when no file handler is set, and the minimum
\* of the two handlers' levels otherwise.
C38_GlobalLevel ==
    logger.level = IF logger.file_handler = <<>> THEN logger.console_handler.level
                   ELSE min(logger.console_handler.level, logger.file_handler[1].level)

=============================================================================
